---- MODULE Spec2Model ----
(***************************************************************************)
(* Call signaling and session lifecycle of the chat application's          *)
(* CallManager component (WebRTC offer/answer over Firestore documents).   *)
(*                                                                         *)
(* Every browser client runs one CallManager.  Its React state and refs    *)
(* are the record session[c]; the Firestore collection chats/<room>/calls  *)
(* is calls, with the two candidate sub-collections of each call.  An      *)
(* async handler (startCall, answerCall, handleHangup, handleReject) is a  *)
(* task that advances from one await to the next; between two awaits any   *)
(* other callback of any client may run.  A Firestore listener re-reads    *)
(* the document when it is notified (dirty), so several writes may reach   *)
(* it as one snapshot or as several.                                       *)
(*                                                                         *)
(* The repository holds several revisions of the component.  Spec,         *)
(* SpecShort and SpecRoom are the revision of src/unnamed/part_003; SpecV2 *)
(* is the second revision in src/components/CallManager.tsx, which differs *)
(* in its catch blocks, in cleanup() and in when the caller's UI enters    *)
(* calling; SpecV1 is the first revision in that file, with its own        *)
(* handlers (initiateCall, hangupCall, rejectCall) and an incoming-call    *)
(* effect whose cleanup function runs cleanup(); SpecV3 is the latest       *)
(* revision in that file (makeCall, handleAnswerCall, handleDecline),      *)
(* which keeps the local stream in React state, ends a call by deleting    *)
(* its record and ignores offers older than a minute.  SpecChat is the     *)
(* revision of part_003 in a room whose members may leave it or delete the *)
(* chat (src/components/ChatScreen.tsx).                                   *)
(***************************************************************************)
EXTENDS Naturals, Integers, Sequences, FiniteSets, Bags, TLC

\* ------------------------------------------------------------------ bounds
\* The users that may be present in a room.
Clients == {"a", "b", "c"}
\* Button presses (call, Answer, Decline, End Call, dismiss) in one behaviour:
\* of a room of two users, of a room of two users explored to a smaller depth,
\* of a room of three users, and of a room of two users of the first revision.
MaxClicks == 3
ShortClicks == 2
RoomClicks == 2
FirstClicks == 2
\* ICE candidates one peer connection gathers.
MaxCands == 1

\* Every call document is created by one press of a call button.
CallIds == 1..MaxClicks
NoCall == 0
\* No CallModal is mounted; no page is modelled.
NoModal == [mounted |-> FALSE]
NoDevice == [open |-> FALSE]
NoConn == 0

VARIABLES
  calls,             \* Firestore: call documents, by id
  offerCandidates,   \* Firestore: number of documents in calls/<id>/offerCandidates
  answerCandidates,  \* Firestore: number of documents in calls/<id>/answerCandidates
  nextId,            \* number of document ids generated so far
  clicks,            \* button presses left in this behaviour
  users,             \* the users present in the room (the participants list)
  variant,           \* which revision of the component the clients run
  session,           \* per client: the component's state and refs
  conns,             \* every RTCPeerConnection object created, in creation order
  tasks,             \* bag of async handler invocations suspended at an await
  timers,            \* per client: pending setTimeout(cleanup, 3000) callbacks
  watchSeen,         \* per client: documents the incoming-call query listener reported
  written,           \* history: statuses among answered/declined written to each call,
                     \* refused when the store refused a write to it, hungup when
                     \* the caller's hang up completed during its startCall
  endedWrites,       \* history: number of status=ended writes, per client and call
  cleanupRuns,       \* history: consecutive runs of cleanup() on a client
  mediaFailed,       \* history: some getUserMedia request was refused
  modal,             \* the CallModal component of one participant: its connection,
                     \* its candidate queue and its listeners
  device             \* one client's page and media: the getUserMedia requests made,
                     \* the local stream's tracks and the connection's senders

vars == <<calls, offerCandidates, answerCandidates, nextId, clicks, users, variant,
          session, conns, tasks, timers, watchSeen, written, endedWrites, cleanupRuns,
          mediaFailed, modal, device>>

\* ------------------------------------------------------------------ values
NoDoc == [exists |-> FALSE, callerId |-> "", calleeId |-> "",
          status |-> "", offer |-> FALSE, answer |-> FALSE]

\* The state the component is constructed with (useState / useRef initial values).
IdleViewState == [status |-> "idle", callId |-> NoCall]

IdleSession ==
  [viewState |-> IdleViewState, incomingData |-> NoCall, errorMsg |-> FALSE,
   pc |-> NoConn, localStream |-> FALSE, remoteStream |-> "null",
   unsubscribeRefs |-> {}]

\* new RTCPeerConnection(ICE_SERVERS): no description, open.
NewConn(c, id, caller) ==
  [owner |-> c, callId |-> id, isCaller |-> caller, closed |-> FALSE,
   local |-> FALSE, remote |-> "none", srd |-> 0, iceNoRemote |-> FALSE,
   tracks |-> FALSE]

\* A createPC that adds no track.
addNoTracks(conn, localStream) == conn

\* createPC: if the local stream ref holds a stream, each of its tracks is
\* added to the new connection.
addTracks(conn, localStream) == [conn EXCEPT !.tracks = localStream]

DocListener(id, k, caller) ==
  [kind |-> "doc", callId |-> id, conn |-> k, isCaller |-> caller,
   dirty |-> TRUE, got |-> 0]

CandListener(id, k, caller) ==
  [kind |-> "cand", callId |-> id, conn |-> k, isCaller |-> caller,
   dirty |-> FALSE, got |-> 0]

\* A suspended invocation: the handler, its client, the await it is at, and the
\* local variables it holds (callId, connection, target user, whether the awaited
\* write was accepted).
Task(kind, c, at, id, k, target, ok) ==
  [kind |-> kind, client |-> c, at |-> at, callId |-> id, conn |-> k,
   target |-> target, ok |-> ok]

Min(x, y) == IF x < y THEN x ELSE y

\* ------------------------------------------------------------------ helpers
Put(t) == tasks (+) SetToBag({t})
Drop(t) == tasks (-) SetToBag({t})
Move(t, u) == (tasks (-) SetToBag({t})) (+) SetToBag({u})

\* The document store notifies every listener of document id.
Notify(ss, id) ==
  [c \in Clients |->
     [ss[c] EXCEPT !.unsubscribeRefs =
        {IF l.kind = "doc" /\ l.callId = id THEN [l EXCEPT !.dirty = TRUE] ELSE l
           : l \in @}]]

\* pc.close() on the object the ref holds.
Close(cs, k) == IF k = NoConn THEN cs ELSE [cs EXCEPT ![k].closed = TRUE]

\* A watcher that keeps what an earlier subscription reported.
RewatchKeeps(seen, old, new) == seen

\* The incoming-call effect depends on viewState.status: it unsubscribes when the
\* status leaves idle and subscribes afresh when it returns to idle.
Rewatch(seen, old, new) ==
  IF (old = "idle") = (new = "idle") THEN seen ELSE {}


\* Client c's record replaced in the session function.
Local(c, s) == [session EXCEPT ![c] = s]

\* A write that sets the status and leaves the answer body for a later write:
\* the two-step variant the single updateDoc of answerCall is compared with.
updateDocStatusOnly(id, st, withAnswer) ==
  IF calls[id].exists
  THEN [calls EXCEPT ![id].status = st]
  ELSE calls

\* updateDoc(callRef, {status, answer?}): merges into an existing document and is
\* rejected when the document does not exist.
updateDoc(id, st, withAnswer) ==
  IF calls[id].exists
  THEN [calls EXCEPT ![id].status = st, ![id].answer = @ \/ withAnswer]
  ELSE calls

\* What a handler of client c leaves behind: the sessions, the peer connections,
\* the incoming-call subscription that follows the status, and whether the handler
\* ended by running cleanup().
Commit(c, ss, cs, ranCleanup) ==
  /\ session' = ss
  /\ conns' = cs
  /\ watchSeen' = [watchSeen EXCEPT ![c] =
       Rewatch(@, session[c].viewState.status, ss[c].viewState.status)]
  /\ cleanupRuns' = [cleanupRuns EXCEPT ![c] = IF ranCleanup THEN Min(@ + 1, 2) ELSE 0]

AddTimer(c) == timers' = [timers EXCEPT ![c] = @ + 1]

\* A button is pressed.
Click == clicks > 0 /\ clicks' = clicks - 1

\* ------------------------------------------------------------------ cleanup
\* cleanup(): stops and drops the local stream, closes and drops the peer
\* connection, drops the remote stream, calls every unsubscribe function and
\* resets the UI state.  The closing of the connection object is Close.
\* (cleanupKeepsIncoming is the same function without setIncomingData(null): the
\* fault that C7 is shown to detect.)
cleanupKeepsIncoming(s) ==
  [s EXCEPT !.localStream = FALSE,
            !.pc = NoConn,
            !.remoteStream = "null",
            !.unsubscribeRefs = {},
            !.viewState = IdleViewState,
            !.errorMsg = FALSE]

cleanup(s) ==
  [s EXCEPT !.localStream = FALSE,
            !.pc = NoConn,
            !.remoteStream = "null",
            !.unsubscribeRefs = {},
            !.viewState = IdleViewState,
            !.incomingData = NoCall,
            !.errorMsg = FALSE]

\* A cleanup() of the earlier revision that leaves its subscriptions in place.
cleanupV2KeepsListeners(s) ==
  [cleanup(s) EXCEPT !.remoteStream = s.remoteStream,
                     !.unsubscribeRefs = s.unsubscribeRefs]

\* cleanup() of the earlier revision: the remote stream ref is left as it is
\* (and that revision has no error banner).
cleanupV2(s) == [cleanup(s) EXCEPT !.remoteStream = s.remoteStream]

runCleanup(s) == IF variant = "V2" THEN cleanupV2(s) ELSE cleanup(s)

\* createPC(callId, isCaller): k is the new connection object; an empty remote
\* MediaStream is created when the ref holds none.
createPC(s, k) ==
  [s EXCEPT !.pc = k,
            !.remoteStream = IF @ = "null" /\ variant # "V2" THEN "empty" ELSE @]

\* ontrack: the remote track is added to the stream the ref holds; the earlier
\* revision stores the event's stream in the ref.
ontrack(s) ==
  [s EXCEPT !.remoteStream = IF @ = "null" /\ variant # "V2" THEN @ ELSE "live"]

\* A catch block that reports the error and leaves the stream alone: the variant
\* the catch block of startCall is compared with.
catchKeepsStream(s) == [s EXCEPT !.errorMsg = TRUE]

\* The catch block of startCall.
catchStartCall(s) == [s EXCEPT !.errorMsg = TRUE, !.localStream = FALSE]

\* The catch block of answerCall.
catchAnswerCall(s) == [s EXCEPT !.errorMsg = TRUE]

\* A catch block runs on client c: it shows the error and schedules cleanup()
\* three seconds later; the earlier revision runs cleanup() at once.
Catch(c, s) ==
  IF variant = "V2"
  THEN /\ Commit(c, Local(c, cleanupV2(session[c])), Close(conns, session[c].pc), TRUE)
       /\ UNCHANGED timers
  ELSE /\ Commit(c, Local(c, s), conns, FALSE)
       /\ AddTimer(c)

\* ------------------------------------------------------------------ rendering
\* Which screen the component renders decides which buttons can be pressed.
ShowsError(c) == c \in users /\ session[c].errorMsg
ShowsIncoming(c) ==
  /\ c \in users
  /\ ~session[c].errorMsg /\ session[c].incomingData # NoCall
ShowsCall(c) ==
  /\ c \in users
  /\ ~session[c].errorMsg
  /\ session[c].incomingData = NoCall
  /\ session[c].viewState.status # "idle"
ShowsParticipants(c) ==
  /\ c \in users
  /\ ~session[c].errorMsg
  /\ session[c].incomingData = NoCall
  /\ session[c].viewState.status = "idle"

\* ------------------------------------------------------------------ startCall
\* The user presses a call button of the participants list: startCall runs up to
\* await getMediaStream().  The document id it will generate is drawn here.
startCall(c, target) ==
  /\ ShowsParticipants(c)
  /\ c \in users /\ target \in users \ {c}
  /\ Click
  /\ nextId' = nextId + 1
  /\ tasks' = Put(Task("startCall", c, "getMedia", nextId + 1, NoConn, target, TRUE))
  /\ UNCHANGED <<modal, device, calls, offerCandidates, answerCandidates, users, variant, mediaFailed, session, conns,
                 timers, watchSeen, written, endedWrites, cleanupRuns>>


\* getMediaStream() resolved: the stream is stored, the UI enters calling (in the
\* earlier revision only after setDoc), the peer connection is created and
\* createOffer() / setLocalDescription() awaited.
startCall_gotMedia(t) ==
  /\ t.kind = "startCall" /\ t.at = "getMedia"
  /\ LET c == t.client
         k == Len(conns) + 1
         calling == [status |-> "calling", callId |-> t.callId]
         s1 == [session[c] EXCEPT !.localStream = TRUE,
                                  !.viewState = IF variant = "V2" THEN @ ELSE calling]
     IN /\ Commit(c, Local(c, createPC(s1, k)),
                  Append(conns, addTracks(NewConn(c, t.callId, TRUE), s1.localStream)),
                  FALSE)
        /\ tasks' = Move(t, [t EXCEPT !.at = "createOffer", !.conn = k])
  /\ UNCHANGED <<modal, device, calls, offerCandidates, answerCandidates, nextId, clicks, users, variant, mediaFailed, timers,
                 written, endedWrites>>

\* getMediaStream() threw (no permission, no device, insecure context).
startCall_mediaFailed(t) ==
  /\ t.kind = "startCall" /\ t.at = "getMedia"
  /\ LET c == t.client
     IN /\ Catch(c, catchStartCall(session[c]))
  /\ tasks' = Drop(t)
  /\ mediaFailed' = TRUE
  /\ UNCHANGED <<modal, device, calls, offerCandidates, answerCandidates, nextId, clicks, users, variant,
                 written, endedWrites>>

\* createOffer() and setLocalDescription() resolved (or rejected: the connection
\* was closed meanwhile); then setDoc(callDocRef, callData) is issued.
startCall_offerCreated(t) ==
  /\ t.kind = "startCall" /\ t.at = "createOffer"
  /\ LET c == t.client
         k == t.conn
     IN IF conns[k].closed
        THEN /\ Catch(c, catchStartCall(session[c]))
             /\ tasks' = Drop(t)
             /\ UNCHANGED calls
        ELSE /\ Commit(c, Notify(session, t.callId),
                       [conns EXCEPT ![k].local = TRUE], FALSE)
             /\ calls' = [calls EXCEPT ![t.callId] =
                            [exists |-> TRUE, callerId |-> c, calleeId |-> t.target,
                             status |-> "offering", offer |-> TRUE,
                             answer |-> FALSE]]
             /\ tasks' = Move(t, [t EXCEPT !.at = "setDoc"])
             /\ UNCHANGED timers
  /\ UNCHANGED <<modal, device, offerCandidates, answerCandidates, nextId, clicks, users, variant, mediaFailed, written, endedWrites>>

\* setDoc() resolved: the caller subscribes to the call document and to the
\* callee's candidates, and pushes both unsubscribe functions.
startCall_docWritten(t) ==
  /\ t.kind = "startCall" /\ t.at = "setDoc"
  /\ LET c == t.client
         calling == [status |-> "calling", callId |-> t.callId]
         s1 == [session[c] EXCEPT
                  !.viewState = IF variant = "V2" THEN calling ELSE @,
                  !.unsubscribeRefs =
                     @ \cup {DocListener(t.callId, t.conn, TRUE),
                             CandListener(t.callId, t.conn, TRUE)}]
     IN Commit(c, Local(c, s1), conns, FALSE)
  /\ tasks' = Drop(t)
  /\ UNCHANGED <<modal, device, calls, offerCandidates, answerCandidates, nextId, clicks, users, variant, mediaFailed, timers,
                 written, endedWrites>>

\* ------------------------------------------------------------------ answerCall
\* The user presses Answer on the incoming-call screen: answerCall captures the
\* call id and the offer of incomingData and awaits getMediaStream().
answerCall(c) ==
  /\ ShowsIncoming(c)
  /\ Click
  /\ tasks' = Put(Task("answerCall", c, "getMedia", session[c].incomingData,
                       NoConn, "", TRUE))
  /\ UNCHANGED <<modal, device, calls, offerCandidates, answerCandidates, nextId, users, variant, mediaFailed, session,
                 conns, timers, watchSeen, written, endedWrites, cleanupRuns>>

\* getMediaStream() resolved: the stream is stored, the peer connection created
\* and setRemoteDescription(offer) awaited.
answerCall_gotMedia(t) ==
  /\ t.kind = "answerCall" /\ t.at = "getMedia"
  /\ LET c == t.client
         k == Len(conns) + 1
         s1 == [session[c] EXCEPT !.localStream = TRUE]
         new == [addTracks(NewConn(c, t.callId, FALSE), s1.localStream)
                   EXCEPT !.remote = "pending", !.srd = 1]
     IN /\ Commit(c, Local(c, createPC(s1, k)), Append(conns, new), FALSE)
        /\ tasks' = Move(t, [t EXCEPT !.at = "setRemoteDescription", !.conn = k])
  /\ UNCHANGED <<modal, device, calls, offerCandidates, answerCandidates, nextId, clicks, users, variant, mediaFailed, timers,
                 written, endedWrites>>

answerCall_mediaFailed(t) ==
  /\ t.kind = "answerCall" /\ t.at = "getMedia"
  /\ LET c == t.client
     IN /\ Catch(c, catchAnswerCall(session[c]))
  /\ tasks' = Drop(t)
  /\ mediaFailed' = TRUE
  /\ UNCHANGED <<modal, device, calls, offerCandidates, answerCandidates, nextId, clicks, users, variant,
                 written, endedWrites>>

\* setRemoteDescription(offer) resolved, the caller's tracks having been
\* announced by ontrack; createAnswer() and setLocalDescription() are awaited.
answerCall_remoteSet(t) ==
  /\ t.kind = "answerCall" /\ t.at = "setRemoteDescription"
  /\ LET c == t.client
         k == t.conn
     IN IF conns[k].closed
        THEN /\ Catch(c, catchAnswerCall(session[c]))
             /\ tasks' = Drop(t)
        ELSE /\ Commit(c, Local(c, ontrack(session[c])),
                       [conns EXCEPT ![k].remote = "set"], FALSE)
             /\ tasks' = Move(t, [t EXCEPT !.at = "createAnswer"])
             /\ UNCHANGED timers
  /\ UNCHANGED <<modal, device, calls, offerCandidates, answerCandidates, nextId, clicks, users, variant, mediaFailed,
                 written, endedWrites>>

\* createAnswer() and setLocalDescription() resolved; updateDoc(callRef,
\* {answer, status: 'answered'}) is issued, one write for both fields.
answerCall_answerCreated(t) ==
  /\ t.kind = "answerCall" /\ t.at = "createAnswer"
  /\ LET c == t.client
         k == t.conn
     IN IF conns[k].closed
        THEN /\ Catch(c, catchAnswerCall(session[c]))
             /\ tasks' = Drop(t)
             /\ UNCHANGED <<modal, device, calls, written>>
        ELSE /\ Commit(c, Notify(session, t.callId),
                       [conns EXCEPT ![k].local = TRUE], FALSE)
             /\ calls' = updateDoc(t.callId, "answered", TRUE)
             /\ written' = IF calls[t.callId].exists
                           THEN [written EXCEPT ![t.callId] = @ \cup {"answered"}]
                           ELSE written
             /\ tasks' = Move(t, [t EXCEPT !.at = "updateDoc",
                                           !.ok = calls[t.callId].exists])
             /\ UNCHANGED timers
  /\ UNCHANGED <<modal, device, offerCandidates, answerCandidates, nextId, clicks, users, variant, mediaFailed, endedWrites>>

\* updateDoc() resolved: the UI enters connected, incomingData is cleared, the
\* callee subscribes to the caller's candidates and to the call document.
answerCall_written(t) ==
  /\ t.kind = "answerCall" /\ t.at = "updateDoc"
  /\ LET c == t.client
         s1 == [session[c] EXCEPT
                  !.viewState = [status |-> "connected", callId |-> t.callId],
                  !.incomingData = NoCall,
                  !.unsubscribeRefs =
                     @ \cup {CandListener(t.callId, t.conn, FALSE),
                             DocListener(t.callId, t.conn, FALSE)}]
     IN IF t.ok
        THEN Commit(c, Local(c, s1), conns, FALSE) /\ UNCHANGED timers
        ELSE Catch(c, catchAnswerCall(session[c]))
  /\ tasks' = Drop(t)
  /\ UNCHANGED <<modal, device, calls, offerCandidates, answerCandidates, nextId, clicks, users, variant, mediaFailed,
                 written, endedWrites>>


\* ------------------------------------------------------------------ hang up, decline
\* The user presses End Call.  With a call id in viewState the handler writes
\* status=ended (a rejected write is swallowed) and awaits it; without one it
\* runs cleanup() at once.
handleHangup(c) ==
  /\ ShowsCall(c)
  /\ Click
  /\ LET id == session[c].viewState.callId
     IN IF id # NoCall
        THEN /\ calls' = updateDoc(id, "ended", FALSE)
             /\ endedWrites' = IF calls[id].exists
                               THEN [endedWrites EXCEPT ![c][id] = Min(@ + 1, 2)]
                               ELSE endedWrites
             /\ Commit(c, Notify(session, id), conns, FALSE)
             /\ tasks' = Put(Task("handleHangup", c, "updateDoc", id, NoConn, "", TRUE))
        ELSE /\ Commit(c, Local(c, runCleanup(session[c])),
                       Close(conns, session[c].pc), TRUE)
             /\ UNCHANGED <<modal, device, calls, endedWrites, tasks>>
  /\ UNCHANGED <<modal, device, offerCandidates, answerCandidates, nextId, users, variant, mediaFailed, timers, written>>

\* The awaited write of handleHangup settled: cleanup().  The history notes a
\* hang up that completes while the startCall of that call is still running.
handleHangup_written(t) ==
  /\ t.kind = "handleHangup" /\ t.at = "updateDoc"
  /\ LET c == t.client
     IN Commit(c, Local(c, runCleanup(session[c])), Close(conns, session[c].pc), TRUE)
  /\ tasks' = Drop(t)
  /\ written' = IF \E u \in BagToSet(tasks) :
                      u.kind = "startCall" /\ u.client = t.client /\ u.callId = t.callId
                 THEN [written EXCEPT ![t.callId] = @ \cup {"hungup"}]
                 ELSE written
  /\ UNCHANGED <<modal, device, calls, offerCandidates, answerCandidates, nextId, clicks, users, variant, mediaFailed, timers,
                 endedWrites>>

\* The user presses Decline on the incoming-call screen: status=declined is
\* written and awaited.
handleReject(c) ==
  /\ ShowsIncoming(c)
  /\ Click
  /\ LET id == session[c].incomingData
     IN /\ calls' = updateDoc(id, "declined", FALSE)
        /\ written' = IF calls[id].exists
                      THEN [written EXCEPT ![id] = @ \cup {"declined"}]
                      ELSE written
        /\ Commit(c, Notify(session, id), conns, FALSE)
        /\ tasks' = Put(Task("handleReject", c, "updateDoc", id, NoConn, "", TRUE))
  /\ UNCHANGED <<modal, device, offerCandidates, answerCandidates, nextId, users, variant, mediaFailed, timers, endedWrites>>

\* The awaited write of handleReject settled: cleanup().
handleReject_written(t) ==
  /\ t.kind = "handleReject" /\ t.at = "updateDoc"
  /\ LET c == t.client
     IN Commit(c, Local(c, runCleanup(session[c])), Close(conns, session[c].pc), TRUE)
  /\ tasks' = Drop(t)
  /\ UNCHANGED <<modal, device, calls, offerCandidates, answerCandidates, nextId, clicks, users, variant, mediaFailed, timers,
                 written, endedWrites>>

\* The X button of the error banner calls cleanup.
dismissError(c) ==
  /\ ShowsError(c)
  /\ Click
  /\ Commit(c, Local(c, runCleanup(session[c])), Close(conns, session[c].pc), TRUE)
  /\ UNCHANGED <<modal, device, calls, offerCandidates, answerCandidates, nextId, users, variant, mediaFailed, tasks,
                 timers, written, endedWrites>>

\* setTimeout(() => cleanup(), 3000) of a catch block fires.
cleanupTimer(c) ==
  /\ timers[c] > 0
  /\ timers' = [timers EXCEPT ![c] = @ - 1]
  /\ Commit(c, Local(c, runCleanup(session[c])), Close(conns, session[c].pc), TRUE)
  /\ UNCHANGED <<modal, device, calls, offerCandidates, answerCandidates, nextId, clicks, users, variant, mediaFailed, tasks,
                 written, endedWrites>>

\* ------------------------------------------------------------------ listeners
\* The snapshot of the call document is delivered to a listener of client c.
\* The caller's callback applies the answer when the connection shows no
\* currentRemoteDescription (setRemoteDescription is not awaited) and tears down
\* on ended or declined; the callee's callback tears down on ended.
onCallSnapshot(c, l) ==
  /\ l \in session[c].unsubscribeRefs
  /\ l.kind = "doc" /\ l.dirty
  /\ LET d == calls[l.callId]
         k == l.conn
         s0 == [session[c] EXCEPT !.unsubscribeRefs =
                  (@ \ {l}) \cup {[l EXCEPT !.dirty = FALSE]}]
         apply == l.isCaller /\ d.exists /\ conns[k].remote # "set" /\ d.answer
         cs1 == IF apply
                THEN [conns EXCEPT ![k].srd = Min(@ + 1, 2),
                                   ![k].remote = IF conns[k].closed THEN @ ELSE "pending"]
                ELSE conns
         s1 == IF apply THEN [s0 EXCEPT !.viewState.status = "connected"] ELSE s0
         over == /\ d.exists
                 /\ \/ d.status = "ended"
                    \/ l.isCaller /\ d.status = "declined"
     IN IF over
        THEN Commit(c, Local(c, runCleanup(s1)), Close(cs1, s1.pc), TRUE)
        ELSE Commit(c, Local(c, s1), cs1, FALSE)
  /\ UNCHANGED <<modal, device, calls, offerCandidates, answerCandidates, nextId, clicks, users, variant, mediaFailed, tasks, timers,
                 written, endedWrites>>

\* The caller's setRemoteDescription(answer), which nobody awaits, completes,
\* the callee's tracks having been announced by ontrack.
setRemoteDescription_done(k) ==
  /\ k \in 1..Len(conns)
  /\ conns[k].isCaller /\ ~conns[k].closed /\ conns[k].remote = "pending"
  /\ LET c == conns[k].owner
     IN Commit(c, Local(c, ontrack(session[c])), [conns EXCEPT ![k].remote = "set"], FALSE)
  /\ UNCHANGED <<modal, device, calls, offerCandidates, answerCandidates, nextId, clicks, users, variant, mediaFailed,
                 tasks, timers, written, endedWrites>>

\* onicecandidate: a connection with a local description gathers a candidate and
\* appends it to its side's collection.
onicecandidate(k) ==
  /\ k \in 1..Len(conns)
  /\ conns[k].local /\ ~conns[k].closed
  /\ LET id == conns[k].callId
     IN IF conns[k].isCaller
        THEN /\ offerCandidates[id] < MaxCands
             /\ offerCandidates' = [offerCandidates EXCEPT ![id] = @ + 1]
             /\ UNCHANGED answerCandidates
        ELSE /\ answerCandidates[id] < MaxCands
             /\ answerCandidates' = [answerCandidates EXCEPT ![id] = @ + 1]
             /\ UNCHANGED offerCandidates
  /\ UNCHANGED <<modal, device, calls, nextId, clicks, users, variant, mediaFailed, session, conns, tasks, timers, watchSeen,
                 written, endedWrites, cleanupRuns>>

\* A listener of the other side's candidates receives the next added document
\* and calls addIceCandidate on its connection, whatever the connection's state.
onCandidateSnapshot(c, l) ==
  /\ l \in session[c].unsubscribeRefs
  /\ l.kind = "cand"
  /\ l.got < (IF l.isCaller THEN answerCandidates[l.callId] ELSE offerCandidates[l.callId])
  /\ LET k == l.conn
         s1 == [session[c] EXCEPT !.unsubscribeRefs =
                  (@ \ {l}) \cup {[l EXCEPT !.got = @ + 1]}]
         cs1 == IF ~conns[k].closed /\ conns[k].remote = "none"
                THEN [conns EXCEPT ![k].iceNoRemote = TRUE]
                ELSE conns
     IN Commit(c, Local(c, s1), cs1, FALSE)
  /\ UNCHANGED <<modal, device, calls, offerCandidates, answerCandidates, nextId, clicks, users, variant, mediaFailed, tasks, timers,
                 written, endedWrites>>

\* ------------------------------------------------------------------ incoming-call watcher
\* The query calleeId == uid && status == 'offering' of the incoming-call effect,
\* which is subscribed while viewState.status is idle.
Matches(id, c) ==
  calls[id].exists /\ calls[id].calleeId = c /\ calls[id].status = "offering"

\* docChanges() reports a document that entered the query: it becomes incomingData.
onIncomingAdded(c, id) ==
  /\ c \in users
  /\ session[c].viewState.status = "idle"
  /\ id \notin watchSeen[c] /\ Matches(id, c)
  /\ watchSeen' = [watchSeen EXCEPT ![c] = @ \cup {id}]
  /\ session' = [session EXCEPT ![c].incomingData = id]
  /\ cleanupRuns' = [cleanupRuns EXCEPT ![c] = 0]
  /\ UNCHANGED <<modal, device, calls, offerCandidates, answerCandidates, nextId, clicks, users, variant, mediaFailed, conns, tasks,
                 timers, written, endedWrites>>

\* docChanges() reports a document that left the query: incomingData is cleared.
onIncomingRemoved(c, id) ==
  /\ c \in users
  /\ session[c].viewState.status = "idle"
  /\ id \in watchSeen[c] /\ ~Matches(id, c)
  /\ watchSeen' = [watchSeen EXCEPT ![c] = @ \ {id}]
  /\ session' = [session EXCEPT ![c].incomingData = NoCall]
  /\ cleanupRuns' = [cleanupRuns EXCEPT ![c] = 0]
  /\ UNCHANGED <<modal, device, calls, offerCandidates, answerCandidates, nextId, clicks, users, variant, mediaFailed, conns, tasks,
                 timers, written, endedWrites>>

\* ------------------------------------------------------------------ leaving the room
\* The component is unmounted (the user leaves the room, is removed from it, or
\* the page is torn down).  React runs the cleanups of the effects: the only one
\* that has any is the incoming-call effect, which unsubscribes its query.  The
\* refs (pc, localStream, unsubscribeRefs) are left as they are, and handlers
\* suspended at an await go on when their promise settles.
unmount(c) ==
  /\ c \in users
  /\ users' = users \ {c}
  /\ watchSeen' = [watchSeen EXCEPT ![c] = {}]
  /\ UNCHANGED <<modal, device, calls, offerCandidates, answerCandidates, nextId, clicks, variant, mediaFailed,
                 session, conns, tasks, timers, written, endedWrites, cleanupRuns>>

\* "Delete All" of the chat screen: handleDeleteChat deletes every document of
\* the calls collection (the candidate sub-collections are not touched), and
\* the deleting user leaves the room through onExit().
handleDeleteChat(c) ==
  /\ c \in users
  /\ \E id \in CallIds : calls[id].exists
  /\ Click
  /\ calls' = [id \in CallIds |-> NoDoc]
  /\ session' = [o \in Clients |->
                  [session[o] EXCEPT !.unsubscribeRefs =
                     {IF l.kind = "doc" /\ calls[l.callId].exists
                      THEN [l EXCEPT !.dirty = TRUE] ELSE l : l \in @}]]
  /\ users' = users \ {c}
  /\ watchSeen' = [watchSeen EXCEPT ![c] = {}]
  /\ UNCHANGED <<modal, device, offerCandidates, answerCandidates, nextId, variant, mediaFailed,
                 conns, tasks, timers, written, endedWrites, cleanupRuns>>

\* ------------------------------------------------------------------ first revision
\* The first revision of the component keeps callStatus, activeCall and
\* incomingCall as separate state, creates the call document before the offer
\* exists, and runs cleanup() from the cleanup function of its incoming-call
\* effect, which React calls whenever callStatus has changed.  bound holds the
\* values of callStatus, activeCall and incomingCall that the callbacks of the
\* effect's last run close over.
NoIncoming == [id |-> NoCall, offer |-> FALSE]

IdleSessionV1 ==
  [callStatus |-> "idle", activeCall |-> NoCall, incomingCall |-> NoIncoming,
   peerConnection |-> NoConn, localStreamRef |-> FALSE, remoteStreamRef |-> FALSE,
   unsubscribes |-> {},
   bound |-> [callStatus |-> "idle", activeCall |-> NoCall, incomingCall |-> NoIncoming]]

cleanupV1(s) ==
  [s EXCEPT !.localStreamRef = FALSE,
            !.peerConnection = NoConn,
            !.unsubscribes = {},
            !.remoteStreamRef = FALSE,
            !.activeCall = NoCall,
            !.callStatus = "idle",
            !.incomingCall = NoIncoming]

createPCV1(s, k) == [s EXCEPT !.peerConnection = k]

NotifyV1(ss, id) ==
  [c \in Clients |->
     [ss[c] EXCEPT !.unsubscribes =
        {IF l.kind = "doc" /\ l.callId = id THEN [l EXCEPT !.dirty = TRUE] ELSE l
           : l \in @}]]

ShowsIncomingV1(c) == session[c].incomingCall # NoIncoming
ShowsCallV1(c) ==
  session[c].incomingCall = NoIncoming /\ session[c].activeCall # NoCall
ShowsParticipantsV1(c) ==
  session[c].incomingCall = NoIncoming /\ session[c].activeCall = NoCall

\* React re-renders after callStatus changed and runs the incoming-call effect
\* again: first the previous run's cleanup function, unsub() and cleanup(), then
\* the body, which subscribes the query afresh with callbacks that close over
\* the state of this render.
effectV1(c) ==
  /\ session[c].bound.callStatus # session[c].callStatus
  /\ LET s == session[c]
         now == [callStatus |-> s.callStatus, activeCall |-> s.activeCall,
                 incomingCall |-> s.incomingCall]
     IN /\ session' = [session EXCEPT ![c] = [cleanupV1(s) EXCEPT !.bound = now]]
        /\ conns' = Close(conns, s.peerConnection)
  /\ watchSeen' = [watchSeen EXCEPT ![c] = {}]
  /\ UNCHANGED <<modal, device, calls, offerCandidates, answerCandidates, nextId, clicks, users, variant,
                 mediaFailed, tasks, timers, written, endedWrites, cleanupRuns>>

\* The query listener reports a document that entered the query; the callback
\* accepts it when the values it closed over say idle and no active call.
onIncomingAddedV1(c, id) ==
  /\ id \notin watchSeen[c] /\ Matches(id, c)
  /\ watchSeen' = [watchSeen EXCEPT ![c] = @ \cup {id}]
  /\ LET b == session[c].bound
     IN session' =
          IF b.callStatus = "idle" /\ b.activeCall = NoCall
          THEN [session EXCEPT ![c].incomingCall = [id |-> id, offer |-> calls[id].offer]]
          ELSE session
  /\ UNCHANGED <<modal, device, calls, offerCandidates, answerCandidates, nextId, clicks, users, variant,
                 mediaFailed, conns, tasks, timers, written, endedWrites, cleanupRuns>>

\* The query listener reports a document that left the query; the callback
\* clears incomingCall when the incomingCall it closed over is that document.
onIncomingRemovedV1(c, id) ==
  /\ id \in watchSeen[c] /\ ~Matches(id, c)
  /\ watchSeen' = [watchSeen EXCEPT ![c] = @ \ {id}]
  /\ LET b == session[c].bound
     IN session' =
          IF b.incomingCall # NoIncoming /\ b.incomingCall.id = id
          THEN [session EXCEPT ![c].incomingCall = NoIncoming]
          ELSE session
  /\ UNCHANGED <<modal, device, calls, offerCandidates, answerCandidates, nextId, clicks, users, variant,
                 mediaFailed, conns, tasks, timers, written, endedWrites, cleanupRuns>>

\* A call button is pressed: setCallStatus('calling'), then getUserMedia() is
\* awaited.
initiateCall(c, target) ==
  /\ ShowsParticipantsV1(c)
  /\ c \in users /\ target \in users \ {c}
  /\ Click
  /\ session' = [session EXCEPT ![c].callStatus = "calling"]
  /\ tasks' = Put(Task("initiateCall", c, "getMedia", NoCall, NoConn, target, TRUE))
  /\ UNCHANGED <<modal, device, calls, offerCandidates, answerCandidates, nextId, users, variant,
                 mediaFailed, conns, timers, watchSeen, written, endedWrites, cleanupRuns>>

\* getUserMedia() resolved: the stream is stored and addDoc() creates the call
\* document, status offering, without an offer.
initiateCall_gotMedia(t) ==
  /\ t.kind = "initiateCall" /\ t.at = "getMedia"
  /\ LET c == t.client
         id == nextId + 1
     IN /\ session' = [session EXCEPT ![c].localStreamRef = TRUE]
        /\ nextId' = id
        /\ calls' = [calls EXCEPT ![id] =
                       [exists |-> TRUE, callerId |-> c, calleeId |-> t.target,
                        status |-> "offering", offer |-> FALSE, answer |-> FALSE]]
        /\ tasks' = Move(t, [t EXCEPT !.at = "addDoc", !.callId = id])
  /\ UNCHANGED <<modal, device, offerCandidates, answerCandidates, clicks, users, variant, mediaFailed,
                 conns, timers, watchSeen, written, endedWrites, cleanupRuns>>

\* getUserMedia() threw: alert, setCallStatus('idle'), return.
initiateCall_mediaFailed(t) ==
  /\ t.kind = "initiateCall" /\ t.at = "getMedia"
  /\ session' = [session EXCEPT ![t.client].callStatus = "idle"]
  /\ tasks' = Drop(t)
  /\ mediaFailed' = TRUE
  /\ UNCHANGED <<modal, device, calls, offerCandidates, answerCandidates, nextId, clicks, users, variant,
                 conns, timers, watchSeen, written, endedWrites, cleanupRuns>>

\* addDoc() resolved: setActiveCall, createPC, then createOffer() and
\* setLocalDescription() are awaited.
initiateCall_docAdded(t) ==
  /\ t.kind = "initiateCall" /\ t.at = "addDoc"
  /\ LET c == t.client
         k == Len(conns) + 1
     IN /\ session' = [session EXCEPT ![c] =
                         createPCV1([@ EXCEPT !.activeCall = t.callId], k)]
        /\ conns' = Append(conns, addTracks(NewConn(c, t.callId, TRUE),
                                            session[c].localStreamRef))
        /\ tasks' = Move(t, [t EXCEPT !.at = "createOffer", !.conn = k])
  /\ UNCHANGED <<modal, device, calls, offerCandidates, answerCandidates, nextId, clicks, users, variant,
                 mediaFailed, timers, watchSeen, written, endedWrites, cleanupRuns>>

\* createOffer() and setLocalDescription() resolved and updateDoc(callDocRef,
\* {offer}) is issued, which the store accepts or refuses; on a connection
\* closed meanwhile they reject and the handler, which has no catch here, ends.
initiateCall_offerCreated(t) ==
  /\ t.kind = "initiateCall" /\ t.at = "createOffer"
  /\ LET k == t.conn
     IN IF conns[k].closed
        THEN /\ tasks' = Drop(t)
             /\ UNCHANGED <<modal, device, calls, conns, written>>
        ELSE \E ok \in BOOLEAN :
               /\ conns' = [conns EXCEPT ![k].local = TRUE]
               /\ calls' = IF ok THEN [calls EXCEPT ![t.callId].offer = TRUE] ELSE calls
               /\ written' = IF ok THEN written
                             ELSE [written EXCEPT ![t.callId] = @ \cup {"refused"}]
               /\ tasks' = Move(t, [t EXCEPT !.at = "updateDoc", !.ok = ok])
  /\ UNCHANGED <<modal, device, offerCandidates, answerCandidates, nextId, clicks, users, variant,
                 mediaFailed, session, timers, watchSeen, endedWrites, cleanupRuns>>

\* updateDoc() settled.  Resolved: the caller subscribes to the call document
\* and to the callee's candidates.  Rejected (the store refused the write): the
\* handler, which has no catch around it, ends there.
initiateCall_offerWritten(t) ==
  /\ t.kind = "initiateCall" /\ t.at = "updateDoc"
  /\ session' = IF t.ok
                THEN [session EXCEPT ![t.client].unsubscribes =
                        @ \cup {DocListener(t.callId, t.conn, TRUE),
                                CandListener(t.callId, t.conn, TRUE)}]
                ELSE session
  /\ tasks' = Drop(t)
  /\ UNCHANGED <<modal, device, calls, offerCandidates, answerCandidates, nextId, clicks, users, variant,
                 mediaFailed, conns, timers, watchSeen, written, endedWrites, cleanupRuns>>

\* Answer is pressed: setActiveCall, setIncomingCall(null),
\* setCallStatus('connected'), then getUserMedia() is awaited.  The handler keeps
\* the incomingCall it was rendered with; ok records whether that carries an offer.
answerCallV1(c) ==
  /\ ShowsIncomingV1(c)
  /\ Click
  /\ LET inc == session[c].incomingCall
     IN /\ session' = [session EXCEPT ![c].activeCall = inc.id,
                                      ![c].incomingCall = NoIncoming,
                                      ![c].callStatus = "connected"]
        /\ tasks' = Put(Task("answerCall", c, "getMedia", inc.id, NoConn, "", inc.offer))
  /\ UNCHANGED <<modal, device, calls, offerCandidates, answerCandidates, nextId, users, variant,
                 mediaFailed, conns, timers, watchSeen, written, endedWrites, cleanupRuns>>

\* getUserMedia() resolved: the stream is stored, the peer connection created and
\* setRemoteDescription(offer) awaited; without an offer the construction of the
\* description throws and the handler ends.
answerCallV1_gotMedia(t) ==
  /\ t.kind = "answerCall" /\ t.at = "getMedia"
  /\ LET c == t.client
         k == Len(conns) + 1
         new == addTracks(NewConn(c, t.callId, FALSE), TRUE)
     IN /\ session' = [session EXCEPT ![c] =
                         createPCV1([@ EXCEPT !.localStreamRef = TRUE], k)]
        /\ IF t.ok
           THEN /\ conns' = Append(conns, [new EXCEPT !.remote = "pending", !.srd = 1])
                /\ tasks' = Move(t, [t EXCEPT !.at = "setRemoteDescription", !.conn = k])
           ELSE /\ conns' = Append(conns, new)
                /\ tasks' = Drop(t)
  /\ UNCHANGED <<modal, device, calls, offerCandidates, answerCandidates, nextId, clicks, users, variant,
                 mediaFailed, timers, watchSeen, written, endedWrites, cleanupRuns>>

\* getUserMedia() threw: cleanup(), return.
answerCallV1_mediaFailed(t) ==
  /\ t.kind = "answerCall" /\ t.at = "getMedia"
  /\ LET c == t.client
     IN /\ session' = [session EXCEPT ![c] = cleanupV1(@)]
        /\ conns' = Close(conns, session[c].peerConnection)
  /\ tasks' = Drop(t)
  /\ mediaFailed' = TRUE
  /\ UNCHANGED <<modal, device, calls, offerCandidates, answerCandidates, nextId, clicks, users, variant,
                 timers, watchSeen, written, endedWrites, cleanupRuns>>

\* setRemoteDescription(offer) resolved (ontrack stored the remote stream);
\* createAnswer() and setLocalDescription() are awaited.
answerCallV1_remoteSet(t) ==
  /\ t.kind = "answerCall" /\ t.at = "setRemoteDescription"
  /\ LET c == t.client
         k == t.conn
     IN IF conns[k].closed
        THEN /\ tasks' = Drop(t)
             /\ UNCHANGED <<modal, device, session, conns>>
        ELSE /\ session' = [session EXCEPT ![c].remoteStreamRef = TRUE]
             /\ conns' = [conns EXCEPT ![k].remote = "set"]
             /\ tasks' = Move(t, [t EXCEPT !.at = "createAnswer"])
  /\ UNCHANGED <<modal, device, calls, offerCandidates, answerCandidates, nextId, clicks, users, variant,
                 mediaFailed, timers, watchSeen, written, endedWrites, cleanupRuns>>

\* createAnswer() and setLocalDescription() resolved; updateDoc({answer, status:
\* 'answered'}) is issued.
answerCallV1_answerCreated(t) ==
  /\ t.kind = "answerCall" /\ t.at = "createAnswer"
  /\ LET k == t.conn
     IN IF conns[k].closed
        THEN /\ tasks' = Drop(t)
             /\ UNCHANGED <<modal, device, calls, conns, session, written>>
        ELSE /\ conns' = [conns EXCEPT ![k].local = TRUE]
             /\ calls' = updateDoc(t.callId, "answered", TRUE)
             /\ written' = [written EXCEPT ![t.callId] = @ \cup {"answered"}]
             /\ session' = NotifyV1(session, t.callId)
             /\ tasks' = Move(t, [t EXCEPT !.at = "updateDoc"])
  /\ UNCHANGED <<modal, device, offerCandidates, answerCandidates, nextId, clicks, users, variant,
                 mediaFailed, timers, watchSeen, endedWrites, cleanupRuns>>

\* updateDoc() resolved: the callee subscribes to the caller's candidates and to
\* the call document.
answerCallV1_written(t) ==
  /\ t.kind = "answerCall" /\ t.at = "updateDoc"
  /\ session' = [session EXCEPT ![t.client].unsubscribes =
                   @ \cup {CandListener(t.callId, t.conn, FALSE),
                           DocListener(t.callId, t.conn, FALSE)}]
  /\ tasks' = Drop(t)
  /\ UNCHANGED <<modal, device, calls, offerCandidates, answerCandidates, nextId, clicks, users, variant,
                 mediaFailed, conns, timers, watchSeen, written, endedWrites, cleanupRuns>>

\* The hangup button of the call screen: status=ended is written and awaited;
\* the store accepts the write or refuses it, and a rejection is swallowed.
hangupCall(c) ==
  /\ ShowsCallV1(c)
  /\ Click
  /\ \E ok \in BOOLEAN :
       LET id == session[c].activeCall
       IN /\ calls' = IF ok THEN updateDoc(id, "ended", FALSE) ELSE calls
          /\ endedWrites' = [endedWrites EXCEPT ![c][id] = Min(@ + 1, 2)]
          /\ session' = IF ok THEN NotifyV1(session, id) ELSE session
          /\ tasks' = Put(Task("hangupCall", c, "updateDoc", id, NoConn, "", ok))
  /\ UNCHANGED <<modal, device, offerCandidates, answerCandidates, nextId, users, variant, mediaFailed,
                 conns, timers, watchSeen, written, cleanupRuns>>

\* The awaited write of hangupCall settled: cleanup().
hangupCall_written(t) ==
  /\ t.kind = "hangupCall" /\ t.at = "updateDoc"
  /\ LET c == t.client
     IN /\ session' = [session EXCEPT ![c] = cleanupV1(@)]
        /\ conns' = Close(conns, session[c].peerConnection)
  /\ tasks' = Drop(t)
  /\ UNCHANGED <<modal, device, calls, offerCandidates, answerCandidates, nextId, clicks, users, variant,
                 mediaFailed, timers, watchSeen, written, endedWrites, cleanupRuns>>

\* The reject button of the incoming-call screen: status=declined is written and
\* awaited; the store accepts the write or refuses it.
rejectCall(c) ==
  /\ ShowsIncomingV1(c)
  /\ Click
  /\ \E ok \in BOOLEAN :
       LET id == session[c].incomingCall.id
       IN /\ calls' = IF ok THEN updateDoc(id, "declined", FALSE) ELSE calls
          /\ written' = [written EXCEPT
                           ![id] = @ \cup {IF ok THEN "declined" ELSE "refused"}]
          /\ session' = IF ok THEN NotifyV1(session, id) ELSE session
          /\ tasks' = Put(Task("rejectCall", c, "updateDoc", id, NoConn, "", ok))
  /\ UNCHANGED <<modal, device, offerCandidates, answerCandidates, nextId, users, variant, mediaFailed,
                 conns, timers, watchSeen, endedWrites, cleanupRuns>>

\* The awaited write of rejectCall settled.  Resolved: setIncomingCall(null).
\* Rejected (the store refused the write): the handler ends with the exception,
\* there being no catch.
rejectCall_written(t) ==
  /\ t.kind = "rejectCall" /\ t.at = "updateDoc"
  /\ session' = IF t.ok
                THEN [session EXCEPT ![t.client].incomingCall = NoIncoming]
                ELSE session
  /\ tasks' = Drop(t)
  /\ UNCHANGED <<modal, device, calls, offerCandidates, answerCandidates, nextId, clicks, users, variant,
                 mediaFailed, conns, timers, watchSeen, written, endedWrites, cleanupRuns>>

\* The snapshot of the call document is delivered to a listener of client c:
\* the caller's callback applies the answer, calls setCallStatus('connected')
\* and tears down on ended or declined; the callee's tears down on ended.
onCallSnapshotV1(c, l) ==
  /\ l \in session[c].unsubscribes
  /\ l.kind = "doc" /\ l.dirty
  /\ LET d == calls[l.callId]
         k == l.conn
         s0 == [session[c] EXCEPT !.unsubscribes =
                  (@ \ {l}) \cup {[l EXCEPT !.dirty = FALSE]}]
         apply == l.isCaller /\ conns[k].remote # "set" /\ d.answer
         cs1 == IF apply
                THEN [conns EXCEPT ![k].srd = Min(@ + 1, 2),
                                   ![k].remote = IF conns[k].closed THEN @ ELSE "pending"]
                ELSE conns
         s1 == IF apply THEN [s0 EXCEPT !.callStatus = "connected"] ELSE s0
         over == \/ d.status = "ended"
                 \/ l.isCaller /\ d.status = "declined"
     IN IF over
        THEN /\ session' = [session EXCEPT ![c] = cleanupV1(s1)]
             /\ conns' = Close(cs1, s1.peerConnection)
        ELSE /\ session' = [session EXCEPT ![c] = s1]
             /\ conns' = cs1
  /\ UNCHANGED <<modal, device, calls, offerCandidates, answerCandidates, nextId, clicks, users, variant,
                 mediaFailed, tasks, timers, watchSeen, written, endedWrites, cleanupRuns>>

\* The caller's setRemoteDescription(answer), which nobody awaits, completes;
\* ontrack stored the remote stream.
setRemoteDescription_doneV1(k) ==
  /\ k \in 1..Len(conns)
  /\ conns[k].isCaller /\ ~conns[k].closed /\ conns[k].remote = "pending"
  /\ conns' = [conns EXCEPT ![k].remote = "set"]
  /\ session' = [session EXCEPT ![conns[k].owner].remoteStreamRef = TRUE]
  /\ UNCHANGED <<modal, device, calls, offerCandidates, answerCandidates, nextId, clicks, users, variant,
                 mediaFailed, tasks, timers, watchSeen, written, endedWrites, cleanupRuns>>

\* A listener of the other side's candidates receives the next added document
\* and calls addIceCandidate on its connection.
onCandidateSnapshotV1(c, l) ==
  /\ l \in session[c].unsubscribes
  /\ l.kind = "cand"
  /\ l.got < (IF l.isCaller THEN answerCandidates[l.callId] ELSE offerCandidates[l.callId])
  /\ LET k == l.conn
     IN /\ session' = [session EXCEPT ![c].unsubscribes =
                         (@ \ {l}) \cup {[l EXCEPT !.got = @ + 1]}]
        /\ conns' = IF ~conns[k].closed /\ conns[k].remote = "none"
                    THEN [conns EXCEPT ![k].iceNoRemote = TRUE]
                    ELSE conns
  /\ UNCHANGED <<modal, device, calls, offerCandidates, answerCandidates, nextId, clicks, users, variant,
                 mediaFailed, tasks, timers, watchSeen, written, endedWrites, cleanupRuns>>

\* ------------------------------------------------------------------ latest revision
\* The latest revision of the component keeps localStream, activeCall and
\* incomingCall in React state, so every handler works with the values of the
\* render it was created in; it ends calls by deleting the call record, and its
\* incoming-call watcher ignores records older than a minute.

\* The two members of the room (the participants list comes from the presence
\* collection, so a member can be called before their component is mounted).
RoomV3 == {"a", "b"}
\* Button presses of a run of the latest revision.
V3Clicks == 2
\* Time advances in steps of Tick milliseconds; ages are followed up to MaxAge.
Tick == 30000
MaxAge == 60000
\* if (Date.now() - createdAt < 60000)
StaleAfter == 60000
NoStream == 0

NoDocV3 ==
  [exists |-> FALSE, callerId |-> "", calleeId |-> "", status |-> "",
   offer |-> FALSE, answer |-> FALSE, age |-> 0]

\* The state the component is constructed with.  subscriptions are the active
\* listeners of the Firestore client, liveTracks the streams obtained from
\* getUserMedia whose tracks have not been stopped; acquired numbers the streams.
IdleSessionV3 ==
  [incomingCall |-> NoCall, activeCall |-> NoCall, viewState |-> [status |-> "idle"],
   localStream |-> NoStream, remoteStream |-> FALSE,
   peerConnection |-> NoConn, unsubscribeCallRef |-> NoConn,
   subscriptions |-> {}, liveTracks |-> {}, acquired |-> 0, unmounted |-> FALSE]

\* new RTCPeerConnection(rtcConfig) with the handlers setupPeerConnection gives
\* it: onconnectionstatechange calls the handleHangup of the render the handler
\* ran in, which sees that render's localStream and activeCall.
NewConnV3(c, id, caller, stream, active) ==
  [owner |-> c, callId |-> id, isCaller |-> caller, closed |-> FALSE,
   local |-> FALSE, remote |-> "none", srd |-> 0, iceNoRemote |-> FALSE,
   stream |-> stream, active |-> active]

\* onSnapshot(...) with its callback, which closes over the connection and over
\* the handleHangup of the render the handler ran in.
ListenerV3(kind, id, k, caller, stream, active) ==
  [kind |-> kind, callId |-> id, conn |-> k, isCaller |-> caller,
   dirty |-> (kind = "doc"), got |-> 0, stream |-> stream, active |-> active]

\* A suspended invocation of a handler of the latest revision: besides the
\* handler's local variables, the localStream and activeCall of its render and
\* the stream it obtained itself.
TaskV3(kind, c, at, id, k, target, stream, active, got) ==
  [kind |-> kind, client |-> c, at |-> at, callId |-> id, conn |-> k,
   target |-> target, ok |-> TRUE, stream |-> stream, active |-> active, got |-> got]

\* The document store notifies every listener of the documents in ids.
NotifyV3(ss, ids) ==
  [c \in Clients |->
     [ss[c] EXCEPT !.subscriptions =
        {IF l.kind = "doc" /\ l.callId \in ids THEN [l EXCEPT !.dirty = TRUE] ELSE l
           : l \in @}]]

\* deleteDoc(doc(db, "chats", roomKey, "calls", id)); no id, no write.
deleteDoc(docs, id) ==
  IF id = NoCall THEN docs ELSE [docs EXCEPT ![id] = NoDocV3]

\* A cleanupCall that resets the state but leaves the peer connection alone.
cleanupCallKeepsConnection(s, stream) ==
  [s EXCEPT !.liveTracks = @ \ {stream},
            !.localStream = NoStream,
            !.remoteStream = FALSE,
            !.incomingCall = NoCall,
            !.activeCall = NoCall,
            !.viewState = [status |-> "idle"],
            !.subscriptions = {l \in @ : ~(l.kind = "doc" /\ l.conn = s.unsubscribeCallRef)},
            !.unsubscribeCallRef = NoConn]

\* cleanupCall as created in a render whose localStream was stream: it stops the
\* tracks of that stream, closes and drops the peer connection the ref holds,
\* resets the state and calls the one unsubscribe function the ref holds.
cleanupCall(s, stream) ==
  [s EXCEPT !.liveTracks = @ \ {stream},
            !.peerConnection = NoConn,
            !.localStream = NoStream,
            !.remoteStream = FALSE,
            !.incomingCall = NoCall,
            !.activeCall = NoCall,
            !.viewState = [status |-> "idle"],
            !.subscriptions = {l \in @ : ~(l.kind = "doc" /\ l.conn = s.unsubscribeCallRef)},
            !.unsubscribeCallRef = NoConn]

\* getLocalStream() resolved with a stream: setLocalStream(stream).
gotLocalStream(s) ==
  [s EXCEPT !.acquired = @ + 1,
            !.localStream = s.acquired + 1,
            !.liveTracks = @ \cup {s.acquired + 1}]

\* setupPeerConnection: the new connection replaces the one the ref holds.
setupPeerConnection(s, k) == [s EXCEPT !.peerConnection = k]

\* handleHangup as created in a render whose localStream was stream and whose
\* activeCall was active, run on client c: cleanupCall first, then the call
\* record of that render's activeCall is deleted.  ss and docs are the sessions
\* and records the calling step has produced so far.
HangupV3(c, ss, docs, stream, active) ==
  /\ calls' = deleteDoc(docs, active)
  /\ session' = NotifyV3([ss EXCEPT ![c] = cleanupCall(ss[c], stream)],
                         IF active # NoCall /\ docs[active].exists THEN {active} ELSE {})
  /\ conns' = Close(conns, ss[c].peerConnection)

\* Which screen the latest revision renders.
ShowsIncomingV3(c) == c \in users /\ session[c].incomingCall # NoCall
ShowsCallV3(c) ==
  /\ c \in users
  /\ session[c].incomingCall = NoCall
  /\ session[c].activeCall # NoCall
ShowsParticipantsV3(c) ==
  /\ c \in users
  /\ session[c].incomingCall = NoCall
  /\ session[c].activeCall = NoCall

\* The component is mounted: the incoming-call effect subscribes its query.
mountV3(c) ==
  /\ c \in RoomV3 \ users
  /\ ~session[c].unmounted
  /\ users' = users \cup {c}
  /\ watchSeen' = [watchSeen EXCEPT ![c] = {}]
  /\ UNCHANGED <<modal, device, calls, offerCandidates, answerCandidates, nextId, clicks, variant, mediaFailed,
                 session, conns, tasks, timers, written, endedWrites, cleanupRuns>>

\* The component is unmounted: the cleanup of the first effect calls the
\* cleanupCall of the first render, whose localStream is null, and the cleanup
\* of the incoming-call effect unsubscribes the query.
unmountV3(c) ==
  /\ c \in users
  /\ users' = users \ {c}
  /\ session' = [session EXCEPT
                   ![c] = [cleanupCall(session[c], NoStream) EXCEPT !.unmounted = TRUE]]
  /\ conns' = Close(conns, session[c].peerConnection)
  /\ watchSeen' = [watchSeen EXCEPT ![c] = {}]
  /\ UNCHANGED <<modal, device, calls, offerCandidates, answerCandidates, nextId, clicks, variant, mediaFailed,
                 tasks, timers, written, endedWrites, cleanupRuns>>

\* Time passes: every record grows older by Tick.
timePasses ==
  /\ \E id \in CallIds :
       calls[id].exists /\ calls[id].status = "offering" /\ calls[id].age < MaxAge
  /\ calls' = [id \in CallIds |->
                 IF calls[id].exists
                 THEN [calls[id] EXCEPT !.age = Min(@ + Tick, MaxAge)]
                 ELSE calls[id]]
  /\ UNCHANGED <<modal, device, offerCandidates, answerCandidates, nextId, clicks, users, variant, mediaFailed,
                 session, conns, tasks, timers, watchSeen, written, endedWrites, cleanupRuns>>

\* ------------------------------------------------------------------ makeCall
\* A call button of the participants list is pressed: makeCall runs up to
\* await getLocalStream().
makeCall(c, target) ==
  /\ ShowsParticipantsV3(c)
  /\ target \in RoomV3 \ {c}
  /\ Click
  /\ tasks' = Put(TaskV3("makeCall", c, "getLocalStream", NoCall, NoConn, target,
                         session[c].localStream, session[c].activeCall, NoStream))
  /\ UNCHANGED <<modal, device, calls, offerCandidates, answerCandidates, nextId, users, variant, mediaFailed,
                 session, conns, timers, watchSeen, written, endedWrites, cleanupRuns>>

\* getLocalStream() resolved with a stream; addDoc creates the call record, with
\* status offering and no offer yet.
makeCall_gotMedia(t) ==
  /\ t.kind = "makeCall" /\ t.at = "getLocalStream"
  /\ nextId < MaxClicks
  /\ LET c == t.client
         id == nextId + 1
     IN /\ nextId' = id
        /\ calls' = [calls EXCEPT ![id] =
                       [NoDocV3 EXCEPT !.exists = TRUE, !.callerId = c,
                                       !.calleeId = t.target, !.status = "offering"]]
        /\ session' = [session EXCEPT ![c] = gotLocalStream(@)]
        /\ tasks' = Move(t, [t EXCEPT !.at = "addDoc", !.callId = id,
                                      !.got = session[c].acquired + 1])
  /\ UNCHANGED <<modal, device, offerCandidates, answerCandidates, clicks, users, variant, mediaFailed,
                 conns, timers, watchSeen, written, endedWrites, cleanupRuns>>

\* getUserMedia rejected: getLocalStream alerts and returns null, makeCall returns.
makeCall_mediaFailed(t) ==
  /\ t.kind = "makeCall" /\ t.at = "getLocalStream"
  /\ tasks' = Drop(t)
  /\ mediaFailed' = TRUE
  /\ UNCHANGED <<modal, device, calls, offerCandidates, answerCandidates, nextId, clicks, users, variant,
                 session, conns, timers, watchSeen, written, endedWrites, cleanupRuns>>

\* addDoc() resolved: setActiveCall, setViewState(calling), setupPeerConnection,
\* addTrack; createOffer() and setLocalDescription() are awaited.
makeCall_docAdded(t) ==
  /\ t.kind = "makeCall" /\ t.at = "addDoc"
  /\ LET c == t.client
         k == Len(conns) + 1
         s1 == [session[c] EXCEPT !.activeCall = t.callId,
                                  !.viewState = [status |-> "calling"]]
     IN /\ session' = [session EXCEPT ![c] = setupPeerConnection(s1, k)]
        /\ conns' = Append(conns, NewConnV3(c, t.callId, TRUE, t.stream, t.active))
        /\ tasks' = Move(t, [t EXCEPT !.at = "createOffer", !.conn = k])
  /\ UNCHANGED <<modal, device, calls, offerCandidates, answerCandidates, nextId, clicks, users, variant,
                 mediaFailed, timers, watchSeen, written, endedWrites, cleanupRuns>>

\* createOffer() and setLocalDescription() resolved (on a connection closed
\* meanwhile they reject and makeCall ends); updateDoc(callDocRef, {offer}) is
\* issued, which is rejected when the record is gone.
makeCall_offerCreated(t) ==
  /\ t.kind = "makeCall" /\ t.at = "createOffer"
  /\ LET id == t.callId
     IN IF conns[t.conn].closed
        THEN /\ tasks' = Drop(t)
             /\ UNCHANGED <<modal, device, calls, session, conns>>
        ELSE /\ conns' = [conns EXCEPT ![t.conn].local = TRUE]
             /\ calls' = IF calls[id].exists THEN [calls EXCEPT ![id].offer = TRUE] ELSE calls
             /\ session' = NotifyV3(session, IF calls[id].exists THEN {id} ELSE {})
             /\ tasks' = Move(t, [t EXCEPT !.at = "updateDoc", !.ok = calls[id].exists])
  /\ UNCHANGED <<modal, device, offerCandidates, answerCandidates, nextId, clicks, users, variant,
                 mediaFailed, timers, watchSeen, written, endedWrites, cleanupRuns>>

\* updateDoc() resolved: the caller subscribes to the call record, keeping the
\* unsubscribe function in unsubscribeCallRef, and to the callee's candidates,
\* whose unsubscribe function it drops.
makeCall_offerWritten(t) ==
  /\ t.kind = "makeCall" /\ t.at = "updateDoc"
  /\ LET c == t.client
     IN session' =
          IF t.ok
          THEN [session EXCEPT
                  ![c].subscriptions = @ \cup
                     {ListenerV3("doc", t.callId, t.conn, TRUE, t.stream, t.active),
                      ListenerV3("cand", t.callId, t.conn, TRUE, t.stream, t.active)},
                  ![c].unsubscribeCallRef = t.conn]
          ELSE session
  /\ tasks' = Drop(t)
  /\ UNCHANGED <<modal, device, calls, offerCandidates, answerCandidates, nextId, clicks, users, variant,
                 mediaFailed, conns, timers, watchSeen, written, endedWrites, cleanupRuns>>

\* ------------------------------------------------------------------ handleAnswerCall
\* Accept is pressed: setActiveCall(incomingCall), setIncomingCall(null),
\* setViewState(connected), then await getLocalStream().
handleAnswerCall(c) ==
  /\ ShowsIncomingV3(c)
  /\ Click
  /\ session' = [session EXCEPT ![c].activeCall = session[c].incomingCall,
                                ![c].incomingCall = NoCall,
                                ![c].viewState = [status |-> "connected"]]
  /\ tasks' = Put(TaskV3("handleAnswerCall", c, "getLocalStream", session[c].incomingCall,
                         NoConn, "", session[c].localStream, session[c].activeCall, NoStream))
  /\ UNCHANGED <<modal, device, calls, offerCandidates, answerCandidates, nextId, users, variant, mediaFailed,
                 conns, timers, watchSeen, written, endedWrites, cleanupRuns>>

\* getLocalStream() resolved with a stream: setupPeerConnection, addTrack, and
\* getDoc(callDocRef) is awaited.
handleAnswerCall_gotMedia(t) ==
  /\ t.kind = "handleAnswerCall" /\ t.at = "getLocalStream"
  /\ LET c == t.client
         k == Len(conns) + 1
     IN /\ session' = [session EXCEPT ![c] = setupPeerConnection(gotLocalStream(@), k)]
        /\ conns' = Append(conns, NewConnV3(c, t.callId, FALSE, t.stream, t.active))
        /\ tasks' = Move(t, [t EXCEPT !.at = "getDoc", !.conn = k,
                                      !.got = session[c].acquired + 1])
  /\ UNCHANGED <<modal, device, calls, offerCandidates, answerCandidates, nextId, clicks, users, variant,
                 mediaFailed, timers, watchSeen, written, endedWrites, cleanupRuns>>

\* getLocalStream() returned null: handleDecline() of the render Accept was
\* pressed in, whose incomingCall is the call, deletes the call record and
\* awaits the deletion.
handleAnswerCall_mediaFailed(t) ==
  /\ t.kind = "handleAnswerCall" /\ t.at = "getLocalStream"
  /\ calls' = deleteDoc(calls, t.callId)
  /\ session' = NotifyV3(session, IF calls[t.callId].exists THEN {t.callId} ELSE {})
  /\ tasks' = Move(t, [t EXCEPT !.kind = "handleDecline", !.at = "deleteDoc"])
  /\ mediaFailed' = TRUE
  /\ UNCHANGED <<modal, device, offerCandidates, answerCandidates, nextId, clicks, users, variant,
                 conns, timers, watchSeen, written, endedWrites, cleanupRuns>>

\* getDoc() resolved.  Without a record or without an offer in it,
\* handleHangup() of the render Accept was pressed in; otherwise
\* setRemoteDescription(offer) is awaited.
handleAnswerCall_gotDoc(t) ==
  /\ t.kind = "handleAnswerCall" /\ t.at = "getDoc"
  /\ LET c == t.client
         d == calls[t.callId]
     IN IF ~d.exists \/ ~d.offer
        THEN /\ HangupV3(c, session, calls, t.stream, t.active)
             /\ tasks' = Drop(t)
        ELSE /\ conns' = [conns EXCEPT ![t.conn].remote = IF conns[t.conn].closed
                                                          THEN @ ELSE "pending",
                                       ![t.conn].srd = 1]
             /\ tasks' = Move(t, [t EXCEPT !.at = "setRemoteDescription"])
             /\ UNCHANGED <<modal, device, calls, session>>
  /\ UNCHANGED <<modal, device, offerCandidates, answerCandidates, nextId, clicks, users, variant,
                 mediaFailed, timers, watchSeen, written, endedWrites, cleanupRuns>>

\* setRemoteDescription(offer) resolved, the caller's tracks having been
\* announced by ontrack (on a closed connection it rejects and the handler
\* ends); createAnswer() and setLocalDescription() are awaited.
handleAnswerCall_remoteSet(t) ==
  /\ t.kind = "handleAnswerCall" /\ t.at = "setRemoteDescription"
  /\ LET c == t.client
     IN IF conns[t.conn].closed
        THEN /\ tasks' = Drop(t)
             /\ UNCHANGED <<modal, device, session, conns>>
        ELSE /\ conns' = [conns EXCEPT ![t.conn].remote = "set"]
             /\ session' = [session EXCEPT ![c].remoteStream = TRUE]
             /\ tasks' = Move(t, [t EXCEPT !.at = "createAnswer"])
  /\ UNCHANGED <<modal, device, calls, offerCandidates, answerCandidates, nextId, clicks, users, variant,
                 mediaFailed, timers, watchSeen, written, endedWrites, cleanupRuns>>

\* createAnswer() and setLocalDescription() resolved; updateDoc(callDocRef,
\* {answer, status: 'answered'}) is issued, which is rejected when the record
\* is gone.
handleAnswerCall_answerCreated(t) ==
  /\ t.kind = "handleAnswerCall" /\ t.at = "createAnswer"
  /\ LET id == t.callId
     IN IF conns[t.conn].closed
        THEN /\ tasks' = Drop(t)
             /\ UNCHANGED <<modal, device, calls, session, conns, written>>
        ELSE /\ conns' = [conns EXCEPT ![t.conn].local = TRUE]
             /\ calls' = updateDoc(id, "answered", TRUE)
             /\ written' = IF calls[id].exists
                           THEN [written EXCEPT ![id] = @ \cup {"answered"}]
                           ELSE written
             /\ session' = NotifyV3(session, IF calls[id].exists THEN {id} ELSE {})
             /\ tasks' = Move(t, [t EXCEPT !.at = "updateDoc", !.ok = calls[id].exists])
  /\ UNCHANGED <<modal, device, offerCandidates, answerCandidates, nextId, clicks, users, variant,
                 mediaFailed, timers, watchSeen, endedWrites, cleanupRuns>>

\* updateDoc() resolved: the callee subscribes to the caller's candidates,
\* dropping the unsubscribe function, and to the call record, keeping the
\* unsubscribe function in unsubscribeCallRef.
handleAnswerCall_written(t) ==
  /\ t.kind = "handleAnswerCall" /\ t.at = "updateDoc"
  /\ LET c == t.client
     IN session' =
          IF t.ok
          THEN [session EXCEPT
                  ![c].subscriptions = @ \cup
                     {ListenerV3("doc", t.callId, t.conn, FALSE, t.stream, t.active),
                      ListenerV3("cand", t.callId, t.conn, FALSE, t.stream, t.active)},
                  ![c].unsubscribeCallRef = t.conn]
          ELSE session
  /\ tasks' = Drop(t)
  /\ UNCHANGED <<modal, device, calls, offerCandidates, answerCandidates, nextId, clicks, users, variant,
                 mediaFailed, conns, timers, watchSeen, written, endedWrites, cleanupRuns>>

\* ------------------------------------------------------------------ decline, hang up
\* Decline is pressed: handleDecline deletes the call record and awaits the
\* deletion.
handleDecline(c) ==
  /\ ShowsIncomingV3(c)
  /\ Click
  /\ LET id == session[c].incomingCall
     IN /\ calls' = deleteDoc(calls, id)
        /\ session' = NotifyV3(session, IF calls[id].exists THEN {id} ELSE {})
        /\ tasks' = Put(TaskV3("handleDecline", c, "deleteDoc", id, NoConn, "",
                               session[c].localStream, session[c].activeCall, NoStream))
  /\ UNCHANGED <<modal, device, offerCandidates, answerCandidates, nextId, users, variant, mediaFailed,
                 conns, timers, watchSeen, written, endedWrites, cleanupRuns>>

\* deleteDoc() settled: setIncomingCall(null).
handleDecline_deleted(t) ==
  /\ t.kind = "handleDecline" /\ t.at = "deleteDoc"
  /\ session' = [session EXCEPT ![t.client].incomingCall = NoCall]
  /\ tasks' = Drop(t)
  /\ UNCHANGED <<modal, device, calls, offerCandidates, answerCandidates, nextId, clicks, users, variant,
                 mediaFailed, conns, timers, watchSeen, written, endedWrites, cleanupRuns>>

\* The hang-up button of the call screen is pressed: handleHangup of the
\* current render.
handleHangupV3(c) ==
  /\ ShowsCallV3(c)
  /\ Click
  /\ HangupV3(c, session, calls, session[c].localStream, session[c].activeCall)
  /\ UNCHANGED <<modal, device, offerCandidates, answerCandidates, nextId, users, variant, mediaFailed,
                 tasks, timers, watchSeen, written, endedWrites, cleanupRuns>>

\* ------------------------------------------------------------------ callbacks of the latest revision
\* The snapshot of the call record is delivered to a listener of client c.  A
\* record that is gone makes both sides call handleHangup(); the caller applies
\* an answer while the connection shows no currentRemoteDescription.
onCallSnapshotV3(c, l) ==
  /\ l \in session[c].subscriptions
  /\ l.kind = "doc" /\ l.dirty
  /\ LET d == calls[l.callId]
         k == l.conn
         ss == [session EXCEPT ![c].subscriptions =
                  (@ \ {l}) \cup {[l EXCEPT !.dirty = FALSE]}]
     IN IF ~d.exists
        THEN HangupV3(c, ss, calls, l.stream, l.active)
        ELSE /\ session' = ss
             /\ conns' = IF l.isCaller /\ d.answer /\ conns[k].remote # "set"
                         THEN [conns EXCEPT ![k].srd = Min(@ + 1, 2),
                                            ![k].remote = IF conns[k].closed
                                                          THEN @ ELSE "pending"]
                         ELSE conns
             /\ UNCHANGED calls
  /\ UNCHANGED <<modal, device, offerCandidates, answerCandidates, nextId, clicks, users, variant, mediaFailed,
                 tasks, timers, watchSeen, written, endedWrites, cleanupRuns>>

\* The caller's setRemoteDescription(answer) completes, the callee's tracks
\* having been announced by ontrack: setRemoteStream.
setRemoteDescription_doneV3(k) ==
  /\ k \in 1..Len(conns)
  /\ conns[k].isCaller /\ conns[k].remote = "pending" /\ ~conns[k].closed
  /\ conns' = [conns EXCEPT ![k].remote = "set"]
  /\ session' = [session EXCEPT ![conns[k].owner].remoteStream = TRUE]
  /\ UNCHANGED <<modal, device, calls, offerCandidates, answerCandidates, nextId, clicks, users, variant,
                 mediaFailed, tasks, timers, watchSeen, written, endedWrites, cleanupRuns>>

\* onconnectionstatechange reports connected (both ends hold both descriptions):
\* setViewState(connected).
connectionConnected(k) ==
  /\ k \in 1..Len(conns)
  /\ ~conns[k].closed /\ conns[k].local /\ conns[k].remote = "set"
  /\ \E j \in 1..Len(conns) :
       /\ conns[j].callId = conns[k].callId /\ conns[j].owner # conns[k].owner
       /\ ~conns[j].closed /\ conns[j].local /\ conns[j].remote = "set"
  /\ session[conns[k].owner].viewState.status # "connected"
  /\ session' = [session EXCEPT ![conns[k].owner].viewState = [status |-> "connected"]]
  /\ UNCHANGED <<modal, device, calls, offerCandidates, answerCandidates, nextId, clicks, users, variant,
                 mediaFailed, conns, tasks, timers, watchSeen, written, endedWrites, cleanupRuns>>

\* onconnectionstatechange reports failed (the network, or the other end, is
\* gone) on a connection that holds both descriptions: handleHangup() of the
\* render the connection was set up in.  The failed connection is dead,
\* whatever the ref holds by now.
connectionFailed(k) ==
  /\ k \in 1..Len(conns)
  /\ ~conns[k].closed /\ conns[k].local /\ conns[k].remote = "set"
  /\ LET c == conns[k].owner
     IN /\ calls' = deleteDoc(calls, conns[k].active)
        /\ session' = NotifyV3([session EXCEPT ![c] = cleanupCall(session[c], conns[k].stream)],
                               IF conns[k].active # NoCall /\ calls[conns[k].active].exists
                               THEN {conns[k].active} ELSE {})
        /\ conns' = Close(Close(conns, session[c].peerConnection), k)
  /\ UNCHANGED <<modal, device, offerCandidates, answerCandidates, nextId, clicks, users, variant, mediaFailed,
                 tasks, timers, watchSeen, written, endedWrites, cleanupRuns>>

\* A listener of the other side's candidates receives the next added document
\* and calls addIceCandidate on its connection, whatever the connection's state.
onCandidateSnapshotV3(c, l) ==
  /\ l \in session[c].subscriptions
  /\ l.kind = "cand"
  /\ l.got < (IF l.isCaller THEN answerCandidates[l.callId] ELSE offerCandidates[l.callId])
  /\ session' = [session EXCEPT ![c].subscriptions =
                   (@ \ {l}) \cup {[l EXCEPT !.got = @ + 1]}]
  /\ conns' = IF ~conns[l.conn].closed /\ conns[l.conn].remote = "none"
              THEN [conns EXCEPT ![l.conn].iceNoRemote = TRUE]
              ELSE conns
  /\ UNCHANGED <<modal, device, calls, offerCandidates, answerCandidates, nextId, clicks, users, variant,
                 mediaFailed, tasks, timers, watchSeen, written, endedWrites, cleanupRuns>>

\* ------------------------------------------------------------------ incoming-call watcher of the latest revision
\* Date.now() - createdAt <= 60000: the test with the boundary on the wrong side.
IsRecentInclusive(age) == age <= StaleAfter

\* Date.now() - createdAt < 60000
IsRecent(age) == age < StaleAfter

\* The query (calleeId == uid, status == 'offering', limit(1)) reports a record
\* that entered its one-record view: it becomes incomingCall when it is recent.
onIncomingAddedV3(c, id) ==
  /\ c \in users
  /\ watchSeen[c] = {} /\ Matches(id, c)
  /\ watchSeen' = [watchSeen EXCEPT ![c] = {id}]
  /\ session' = IF IsRecent(calls[id].age)
                THEN [session EXCEPT ![c].incomingCall = id]
                ELSE session
  /\ UNCHANGED <<modal, device, calls, offerCandidates, answerCandidates, nextId, clicks, users, variant,
                 mediaFailed, conns, tasks, timers, written, endedWrites, cleanupRuns>>

\* The query reports that the record left its view: setIncomingCall(null).
onIncomingRemovedV3(c, id) ==
  /\ c \in users
  /\ id \in watchSeen[c] /\ ~Matches(id, c)
  /\ watchSeen' = [watchSeen EXCEPT ![c] = @ \ {id}]
  /\ session' = [session EXCEPT ![c].incomingCall = NoCall]
  /\ UNCHANGED <<modal, device, calls, offerCandidates, answerCandidates, nextId, clicks, users, variant,
                 mediaFailed, conns, tasks, timers, written, endedWrites, cleanupRuns>>

\* ------------------------------------------------------------------ CallModal
\* The CallModal component: one participant's side of a call, the host (caller)
\* or a joiner (callee), from new RTCPeerConnection(SERVERS) on.  Candidates of
\* the other side are numbered in the order they are written.
MaxModalCands == 3
ModalCands == 1..MaxModalCands

\* The component as startCall leaves it after new RTCPeerConnection(SERVERS):
\* no description, an empty candidateQueue, no listener yet.
\*   signal       the other side's offer (joiner) or answer (host) in the call
\*                document: none, ready (written, snapshot not delivered), seen
\*   srd          setRemoteDescription() calls in flight
\*   adding       addIceCandidate() calls in flight, with the function awaiting
\*   applied      history: resolved addIceCandidate() calls per candidate
\*   early        history: candidates that arrived without a remote description
\*   called       history: the candidates in the order addIceCandidate() was
\*                called for them, which is the order the connection takes them
NewModal(isHost) ==
  [mounted |-> TRUE, isHost |-> isHost, at |-> "start", closed |-> FALSE,
   listening |-> FALSE, remoteDescription |-> FALSE, srd |-> 0,
   signal |-> "none", remoteWritten |-> 0, delivered |-> 0,
   candidateQueue |-> <<>>, adding |-> {}, flushing |-> FALSE,
   applied |-> [c \in ModalCands |-> 0], early |-> {}, dropped |-> {},
   called |-> <<>>]

\* processCandidate that hands every candidate to addIceCandidate at once.
processCandidateAtOnce(m, c) ==
  [m EXCEPT !.adding = @ \cup {[cand |-> c, by |-> "process"]}]

\* processCandidate(candidate): with a remote description addIceCandidate is
\* called and awaited, without one the candidate is pushed on the queue.
processCandidate(m, c) ==
  IF m.remoteDescription
  THEN [m EXCEPT !.adding = @ \cup {[cand |-> c, by |-> "process"]},
                 !.called = Append(@, c)]
  ELSE [m EXCEPT !.candidateQueue = Append(@, c)]

\* One turn of the loop of flushCandidateQueue: the head of the queue is
\* shifted off and addIceCandidate is called and awaited for it; on an empty
\* queue the loop ends.
flushCandidateQueue(m) ==
  IF Len(m.candidateQueue) > 0
  THEN [m EXCEPT !.candidateQueue = Tail(@),
                 !.adding = @ \cup {[cand |-> Head(m.candidateQueue), by |-> "flush"]},
                 !.called = Append(@, Head(m.candidateQueue)),
                 !.flushing = TRUE]
  ELSE [m EXCEPT !.flushing = FALSE,
                 !.at = IF m.isHost THEN @ ELSE "createAnswer"]

\* startCall reaches its listeners.  The host has awaited createOffer(),
\* setLocalDescription() and setDoc() first, which reject on a connection closed
\* meanwhile (the catch calls onClose()); the joiner subscribes at once.
modalSubscribe ==
  /\ modal.mounted /\ modal.at = "start"
  /\ modal' = IF modal.isHost /\ modal.closed
              THEN [modal EXCEPT !.at = "failed"]
              ELSE [modal EXCEPT !.at = "listening", !.listening = ~modal.closed]
  /\ UNCHANGED <<calls, offerCandidates, answerCandidates, nextId, clicks, users, variant,
                 session, conns, tasks, timers, watchSeen, written, endedWrites,
                 cleanupRuns, mediaFailed, device>>

\* The other side writes its description into the call document: the host its
\* offer, a joiner its answer once it has the host's offer.
peerDescription ==
  /\ modal.mounted /\ modal.signal = "none"
  /\ modal.isHost => modal.at = "listening"
  /\ modal' = [modal EXCEPT !.signal = "ready"]
  /\ UNCHANGED <<calls, offerCandidates, answerCandidates, nextId, clicks, users, variant,
                 session, conns, tasks, timers, watchSeen, written, endedWrites,
                 cleanupRuns, mediaFailed, device>>

\* The other side's onicecandidate adds a document to its candidates collection.
peerCandidate ==
  /\ modal.mounted /\ modal.remoteWritten < MaxModalCands
  /\ modal.isHost => modal.at = "listening"
  /\ modal' = [modal EXCEPT !.remoteWritten = @ + 1]
  /\ UNCHANGED <<calls, offerCandidates, answerCandidates, nextId, clicks, users, variant,
                 session, conns, tasks, timers, watchSeen, written, endedWrites,
                 cleanupRuns, mediaFailed, device>>

\* The listener of the call document receives the other side's description:
\* without a remote description setRemoteDescription() is called.
onModalDocSnapshot ==
  /\ modal.mounted /\ modal.listening /\ modal.signal = "ready"
  /\ modal' = [modal EXCEPT !.signal = "seen",
                            !.srd = IF modal.remoteDescription THEN @ ELSE @ + 1]
  /\ UNCHANGED <<calls, offerCandidates, answerCandidates, nextId, clicks, users, variant,
                 session, conns, tasks, timers, watchSeen, written, endedWrites,
                 cleanupRuns, mediaFailed, device>>

\* setRemoteDescription() settled.  Resolved: the connection has its remote
\* description and flushCandidateQueue() starts.  Rejected (the connection was
\* closed meanwhile): the host logs, the joiner's callback ends.
modalRemoteDescription_done ==
  /\ modal.mounted /\ modal.srd > 0
  /\ modal' = IF modal.closed
              THEN [modal EXCEPT !.srd = @ - 1]
              ELSE flushCandidateQueue([modal EXCEPT !.srd = @ - 1,
                                                     !.remoteDescription = TRUE])
  /\ UNCHANGED <<calls, offerCandidates, answerCandidates, nextId, clicks, users, variant,
                 session, conns, tasks, timers, watchSeen, written, endedWrites,
                 cleanupRuns, mediaFailed, device>>

\* The listener of the other side's candidates receives the next added
\* document: processCandidate(candidate).
onModalCandidateSnapshot ==
  /\ modal.mounted /\ modal.listening /\ modal.delivered < modal.remoteWritten
  /\ LET c == modal.delivered + 1
     IN modal' = processCandidate(
                   [modal EXCEPT !.delivered = c,
                                 !.early = IF modal.remoteDescription THEN @ ELSE @ \cup {c}],
                   c)
  /\ UNCHANGED <<calls, offerCandidates, answerCandidates, nextId, clicks, users, variant,
                 session, conns, tasks, timers, watchSeen, written, endedWrites,
                 cleanupRuns, mediaFailed, device>>

\* addIceCandidate() settled.  It resolves on an open connection that has a
\* remote description and rejects otherwise.  processCandidate pushes a rejected
\* candidate on the queue; flushCandidateQueue logs a rejected one and goes on
\* with its loop either way.
modalAddIceCandidate_done(a) ==
  /\ modal.mounted /\ a \in modal.adding
  /\ LET ok == ~modal.closed /\ modal.remoteDescription
         m1 == [modal EXCEPT !.adding = @ \ {a},
                             !.applied[a.cand] = IF ok THEN Min(@ + 1, 2) ELSE @]
     IN modal' =
          IF a.by = "flush"
          THEN flushCandidateQueue(
                 [m1 EXCEPT !.dropped = IF ok THEN @ ELSE @ \cup {a.cand}])
          ELSE IF ok THEN m1
               ELSE [m1 EXCEPT !.candidateQueue = Append(@, a.cand)]
  /\ UNCHANGED <<calls, offerCandidates, answerCandidates, nextId, clicks, users, variant,
                 session, conns, tasks, timers, watchSeen, written, endedWrites,
                 cleanupRuns, mediaFailed, device>>

\* The joiner, its queue flushed, creates its answer, sets it as local
\* description and writes it into the call document.
modalAnswer ==
  /\ modal.mounted /\ modal.at = "createAnswer"
  /\ modal' = [modal EXCEPT !.at = IF modal.closed THEN "failed" ELSE "answered"]
  /\ UNCHANGED <<calls, offerCandidates, answerCandidates, nextId, clicks, users, variant,
                 session, conns, tasks, timers, watchSeen, written, endedWrites,
                 cleanupRuns, mediaFailed, device>>

\* The cleanup of the effect (the modal is closed): the listeners are
\* unsubscribed and the peer connection is closed.
modalCleanup ==
  /\ modal.mounted /\ ~modal.closed
  /\ modal' = [modal EXCEPT !.closed = TRUE, !.listening = FALSE]
  /\ UNCHANGED <<calls, offerCandidates, answerCandidates, nextId, clicks, users, variant,
                 session, conns, tasks, timers, watchSeen, written, endedWrites,
                 cleanupRuns, mediaFailed, device>>

\* ------------------------------------------------------------------ media
\* One client's page and media in the primary revision: getMediaStream with the
\* getUserMedia requests it makes, the tracks of the local stream, the tracks
\* the peer connection's senders carry, and the in-call camera switch.  The
\* client is the caller of the one call of the run, whose record and candidate
\* collections are those of DeviceCall.
DeviceClicks == 3
DeviceCall == 1
Protocols == {"https:", "http:"}
Hostnames == {"localhost", "127.0.0.1", "chat.example.org"}
NoTrack == 0
NoLocalStream == [audio |-> NoTrack, video |-> NoTrack]
NoInvocation == [for |-> "none", type |-> "none", mode |-> "user"]

\* The page as loaded: no stream, no connection, the front camera preferred.
\*   type       viewState.type while the client is in a call, none outside one
\*   requests   the getUserMedia requests of the latest getMediaStream call,
\*              each with its constraints and its outcome
\*   result     how the latest getMediaStream call ended
\*   stopped    tracks on which stop() was called
\*   tracks     number of tracks getUserMedia has produced
\*   disabled   tracks whose enabled flag is false
NewDevice(protocol, hostname, isMobile) ==
  [open |-> TRUE, protocol |-> protocol, hostname |-> hostname, isMobile |-> isMobile,
   facingMode |-> "user", type |-> "none",
   localStream |-> NoLocalStream, pc |-> FALSE, senders |-> NoLocalStream,
   stopped |-> {}, tracks |-> 0, isMuted |-> FALSE, disabled |-> {},
   invocation |-> NoInvocation, requests |-> <<>>, result |-> "none"]

\* A page on which every context counts as secure.
AnyPageSecure(d) == TRUE

\* isLocalhost || isSecure
IsSecurePage(d) ==
  \/ d.hostname = "localhost" \/ d.hostname = "127.0.0.1"
  \/ d.protocol = "https:"

\* The constraints getMediaStream asks for first.
IdealConstraints(type, isMobile, preferredMode) ==
  IF type = "video"
  THEN IF isMobile
       THEN [audio |-> "processed", video |-> "facingMode " \o preferredMode]
       ELSE [audio |-> "processed", video |-> "1280x720"]
  ELSE [audio |-> "processed", video |-> "false"]

\* A fallback that asks for the camera whatever the call.
FallbackWithVideo(type) == [audio |-> "true", video |-> "true"]

\* { audio: true, video: type === 'video' }
FallbackConstraints(type) ==
  [audio |-> "true", video |-> IF type = "video" THEN "true" ELSE "false"]

\* The stream getUserMedia resolves with: an audio track, and a video track
\* unless video was false; n tracks exist already.
NewStream(constraints, n) ==
  [audio |-> n + 1, video |-> IF constraints.video = "false" THEN NoTrack ELSE n + 2]

\* getMediaStream(type, preferredMode) up to its first await, called by the
\* handler named by for: on a page that is neither localhost nor https it throws
\* at once, otherwise it requests the ideal constraints.
getMediaStream(d, for, type, preferredMode) ==
  IF ~IsSecurePage(d)
  THEN [d EXCEPT !.requests = <<>>, !.result = "error",
                 !.invocation = [NoInvocation EXCEPT !.type = type, !.mode = preferredMode]]
  ELSE [d EXCEPT !.requests = <<[constraints |-> IdealConstraints(type, d.isMobile,
                                                                  preferredMode),
                                 outcome |-> "pending"]>>,
                 !.result = "none",
                 !.invocation = [for |-> for, type |-> type, mode |-> preferredMode]]

\* A switch that puts both tracks of the new stream on the senders.
replaceAllTracks(senders, stream) == stream

\* sender.replaceTrack(videoTrack) on the sender that carries a video track.
replaceTrack(senders, stream) ==
  IF senders.video # NoTrack THEN [senders EXCEPT !.video = stream.video] ELSE senders

\* startCall after getMediaStream returned stream: localStream.current = stream,
\* setViewState(calling), createPC adds the stream's tracks to the connection.
startCallWithStream(d, stream) ==
  [d EXCEPT !.localStream = stream, !.type = d.invocation.type,
            !.pc = TRUE, !.senders = stream]

\* switchCamera after getMediaStream returned newStream: the video sender gets
\* the new video track, the old audio track is added to a new stream that has
\* none, and the new stream becomes localStream.current.
switchCameraWithStream(d, newStream) ==
  [d EXCEPT !.senders = IF d.pc THEN replaceTrack(@, newStream) ELSE @,
            !.localStream = IF newStream.audio = NoTrack
                            THEN [newStream EXCEPT !.audio = d.localStream.audio]
                            ELSE newStream,
            !.facingMode = d.invocation.mode]

\* toggleMute with a local stream: the enabled flag of each audio track of
\* localStream.current is inverted, and so is isMuted.
toggleMute(d) ==
  LET audio == {d.localStream.audio} \ {NoTrack}
  IN [d EXCEPT !.disabled = (@ \ audio) \cup (audio \ @),
               !.isMuted = ~@]

\* A call button is pressed on a client that is in no call: startCall calls
\* getMediaStream(type, facingMode).
deviceStartCall(type) ==
  /\ device.open /\ device.type = "none" /\ device.invocation.for = "none"
  /\ Click
  /\ device' = getMediaStream(device, "startCall", type, device.facingMode)
  /\ UNCHANGED <<calls, offerCandidates, answerCandidates, nextId, users, variant,
                 session, conns, tasks, timers, watchSeen, written, endedWrites,
                 cleanupRuns, mediaFailed, modal>>

\* The switch-camera button: nothing without a local stream or outside a video
\* call; otherwise the video tracks of the local stream are stopped and
\* getMediaStream('video', newMode) is called.
deviceSwitchCamera ==
  /\ device.open /\ device.type # "none" /\ device.invocation.for = "none"
  /\ Click
  /\ device' =
       IF device.localStream = NoLocalStream \/ device.type # "video"
       THEN device
       ELSE getMediaStream(
              [device EXCEPT !.stopped = @ \cup ({device.localStream.video} \ {NoTrack})],
              "switchCamera", "video",
              IF device.facingMode = "user" THEN "environment" ELSE "user")
  /\ UNCHANGED <<calls, offerCandidates, answerCandidates, nextId, users, variant,
                 session, conns, tasks, timers, watchSeen, written, endedWrites,
                 cleanupRuns, mediaFailed, modal>>

\* The microphone button of the call screen: nothing without a local stream.
deviceToggleMute ==
  /\ device.open /\ device.type # "none"
  /\ Click
  /\ device' = IF device.localStream = NoLocalStream THEN device ELSE toggleMute(device)
  /\ UNCHANGED <<calls, offerCandidates, answerCandidates, nextId, users, variant,
                 session, conns, tasks, timers, watchSeen, written, endedWrites,
                 cleanupRuns, mediaFailed, modal>>

\* The pending getUserMedia request settles.  Resolved: getMediaStream returns
\* the stream and its caller goes on (startCall up to setDoc, switchCamera to
\* its end).  Rejected: the first request is followed by the fallback request,
\* the fallback's error is thrown to the caller's catch.
deviceMediaSettled(ok) ==
  /\ device.open /\ device.invocation.for # "none"
  /\ LET n == Len(device.requests)
         inv == device.invocation
         stream == NewStream(device.requests[n].constraints, device.tracks)
         got == [device EXCEPT !.requests[n].outcome = "stream",
                               !.result = "stream",
                               !.tracks = @ + (IF stream.video = NoTrack THEN 1 ELSE 2),
                               !.invocation.for = "none"]
     IN IF ok
        THEN IF inv.for = "startCall"
             THEN /\ device' = startCallWithStream(got, stream)
                  /\ calls' = [calls EXCEPT ![DeviceCall] =
                                 [exists |-> TRUE, callerId |-> "a", calleeId |-> "b",
                                  status |-> "offering", offer |-> TRUE,
                                  answer |-> FALSE]]
             ELSE /\ device' = switchCameraWithStream(got, stream)
                  /\ UNCHANGED calls
        ELSE /\ device' =
                  IF n = 1
                  THEN [device EXCEPT
                          !.requests =
                             <<[@[1] EXCEPT !.outcome = "error"],
                               [constraints |-> FallbackConstraints(inv.type),
                                outcome |-> "pending"]>>]
                  ELSE [device EXCEPT !.requests[n].outcome = "error",
                                      !.result = "error",
                                      !.invocation.for = "none"]
             /\ UNCHANGED calls
  /\ UNCHANGED <<offerCandidates, answerCandidates, nextId, clicks, users, variant,
                 session, conns, tasks, timers, watchSeen, written, endedWrites,
                 cleanupRuns, mediaFailed, modal>>

\* The callee accepts: answer and status=answered are written into the record.
devicePeerAnswers ==
  /\ device.open /\ calls[DeviceCall].exists /\ calls[DeviceCall].status = "offering"
  /\ calls' = updateDoc(DeviceCall, "answered", TRUE)
  /\ UNCHANGED <<offerCandidates, answerCandidates, nextId, clicks, users, variant,
                 session, conns, tasks, timers, watchSeen, written, endedWrites,
                 cleanupRuns, mediaFailed, modal, device>>

\* onicecandidate of either side adds a document to its candidates collection.
deviceCandidate(isCaller) ==
  /\ device.open /\ calls[DeviceCall].exists
  /\ isCaller \/ calls[DeviceCall].answer
  /\ IF isCaller
     THEN /\ offerCandidates[DeviceCall] < MaxCands
          /\ offerCandidates' = [offerCandidates EXCEPT ![DeviceCall] = @ + 1]
          /\ UNCHANGED answerCandidates
     ELSE /\ answerCandidates[DeviceCall] < MaxCands
          /\ answerCandidates' = [answerCandidates EXCEPT ![DeviceCall] = @ + 1]
          /\ UNCHANGED offerCandidates
  /\ UNCHANGED <<calls, nextId, clicks, users, variant,
                 session, conns, tasks, timers, watchSeen, written, endedWrites,
                 cleanupRuns, mediaFailed, modal, device>>

\* ------------------------------------------------------------------ part_004
\* The revision of src/unnamed/part_004: state, cleanup(), createPC() and the
\* incoming-call effect are those of the first revision; answerCall reads the
\* call record with getDoc() and wraps its steps in try/catch.  The caller of the
\* one call of the run is "a", who adds the record and writes its offer
\* afterwards; the callee is "b".
AnswerClicks == 2
CallP4 == 1

\* initiateCall of the caller up to addDoc(): the record is created with
\* status offering and without an offer.
initiateCallP4_docAdded ==
  /\ variant = "part_004" /\ ~calls[CallP4].exists
  /\ calls' = [calls EXCEPT ![CallP4] =
                 [exists |-> TRUE, callerId |-> "a", calleeId |-> "b",
                  status |-> "offering", offer |-> FALSE, answer |-> FALSE]]
  /\ UNCHANGED <<offerCandidates, answerCandidates, nextId, clicks, users, variant,
                 session, conns, tasks, timers, watchSeen, written, endedWrites,
                 cleanupRuns, mediaFailed, modal, device>>

\* initiateCall of the caller: updateDoc(callDocRef, { offer }).
initiateCallP4_offerWritten ==
  /\ variant = "part_004" /\ calls[CallP4].exists /\ ~calls[CallP4].offer
  /\ calls' = [calls EXCEPT ![CallP4].offer = TRUE]
  /\ UNCHANGED <<offerCandidates, answerCandidates, nextId, clicks, users, variant,
                 session, conns, tasks, timers, watchSeen, written, endedWrites,
                 cleanupRuns, mediaFailed, modal, device>>

\* The incoming-call effect and its watcher, as in the first revision.
effectP4(c) == variant = "part_004" /\ effectV1(c)
onIncomingAddedP4(c, id) == variant = "part_004" /\ onIncomingAddedV1(c, id)
onIncomingRemovedP4(c, id) == variant = "part_004" /\ onIncomingRemovedV1(c, id)

\* Answer is pressed: setActiveCall, setIncomingCall(null),
\* setCallStatus('connected'), then getUserMedia() is awaited.
answerCallP4(c) ==
  /\ variant = "part_004"
  /\ ShowsIncomingV1(c)
  /\ Click
  /\ LET inc == session[c].incomingCall
     IN /\ session' = [session EXCEPT ![c].activeCall = inc.id,
                                      ![c].incomingCall = NoIncoming,
                                      ![c].callStatus = "connected"]
        /\ tasks' = Put(Task("answerCallP4", c, "getMedia", inc.id, NoConn, "", TRUE))
  /\ UNCHANGED <<calls, offerCandidates, answerCandidates, nextId, users, variant,
                 mediaFailed, conns, timers, watchSeen, written, endedWrites,
                 cleanupRuns, modal, device>>

\* getUserMedia() resolved: the stream is stored, createPC() makes the
\* connection, the tracks are added to it and getDoc(callDocRef) is awaited.
answerCallP4_gotMedia(t) ==
  /\ t.kind = "answerCallP4" /\ t.at = "getMedia"
  /\ LET c == t.client
         k == Len(conns) + 1
     IN /\ session' = [session EXCEPT ![c] =
                         createPCV1([@ EXCEPT !.localStreamRef = TRUE], k)]
        /\ conns' = Append(conns, addTracks(NewConn(c, t.callId, FALSE), TRUE))
        /\ tasks' = Move(t, [t EXCEPT !.at = "getDoc", !.conn = k])
  /\ UNCHANGED <<calls, offerCandidates, answerCandidates, nextId, clicks, users, variant,
                 mediaFailed, timers, watchSeen, written, endedWrites, cleanupRuns,
                 modal, device>>

\* getUserMedia() threw: cleanup(), return.
answerCallP4_mediaFailed(t) ==
  /\ t.kind = "answerCallP4" /\ t.at = "getMedia"
  /\ LET c == t.client
     IN /\ session' = [session EXCEPT ![c] = cleanupV1(@)]
        /\ conns' = Close(conns, session[c].peerConnection)
  /\ tasks' = Drop(t)
  /\ mediaFailed' = TRUE
  /\ UNCHANGED <<calls, offerCandidates, answerCandidates, nextId, clicks, users, variant,
                 timers, watchSeen, written, endedWrites, cleanupRuns, modal, device>>

\* getDoc() resolved.  Without a record: cleanup(), return.  Without an offer in the record the handler only warns;
\* with one it calls setRemoteDescription(offer) and awaits it.  Either way
\* step 4 follows.
answerCallP4_gotDoc(t) ==
  /\ t.kind = "answerCallP4" /\ t.at = "getDoc"
  /\ LET c == t.client
         k == t.conn
     IN IF ~calls[t.callId].exists
        THEN /\ session' = [session EXCEPT ![c] = cleanupV1(@)]
             /\ conns' = Close(conns, session[c].peerConnection)
             /\ tasks' = Drop(t)
        ELSE IF calls[t.callId].offer
        THEN /\ conns' = IF conns[k].closed THEN conns
                         ELSE [conns EXCEPT ![k].remote = "pending", ![k].srd = 1]
             /\ tasks' = Move(t, [t EXCEPT !.at = "setRemoteDescription"])
             /\ UNCHANGED session
        ELSE /\ tasks' = Move(t, [t EXCEPT !.at = "createAnswer"])
             /\ UNCHANGED <<session, conns>>
  /\ UNCHANGED <<calls, offerCandidates, answerCandidates, nextId, clicks, users, variant,
                 mediaFailed, timers, watchSeen, written, endedWrites,
                 cleanupRuns, modal, device>>

\* setRemoteDescription(offer) settled: resolved (ontrack stored the remote
\* stream), or rejected on a connection closed meanwhile, which the catch logs.
\* Step 4 follows: pc.createAnswer() is called.
answerCallP4_remoteSet(t) ==
  /\ t.kind = "answerCallP4" /\ t.at = "setRemoteDescription"
  /\ LET c == t.client
         k == t.conn
     IN IF conns[k].closed
        THEN UNCHANGED <<session, conns>>
        ELSE /\ session' = [session EXCEPT ![c].remoteStreamRef = TRUE]
             /\ conns' = [conns EXCEPT ![k].remote = "set"]
  /\ tasks' = Move(t, [t EXCEPT !.at = "createAnswer"])
  /\ UNCHANGED <<calls, offerCandidates, answerCandidates, nextId, clicks, users, variant,
                 mediaFailed, timers, watchSeen, written, endedWrites, cleanupRuns,
                 modal, device>>

\* pc.createAnswer() settled.  On an open connection that has the offer as
\* remote description it resolves, setLocalDescription(answer) follows and
\* updateDoc({answer, status: 'answered'}) is issued.  Otherwise it rejects, the
\* catch logs and the handler goes on to its listeners.
answerCallP4_answerCreated(t) ==
  /\ t.kind = "answerCallP4" /\ t.at = "createAnswer"
  /\ LET c == t.client
         k == t.conn
     IN IF ~conns[k].closed /\ conns[k].remote = "set"
        THEN /\ conns' = [conns EXCEPT ![k].local = TRUE]
             /\ calls' = updateDoc(t.callId, "answered", TRUE)
             /\ written' = [written EXCEPT ![t.callId] = @ \cup {"answered"}]
             /\ session' = NotifyV1(session, t.callId)
             /\ tasks' = Move(t, [t EXCEPT !.at = "updateDoc"])
        ELSE /\ session' = [session EXCEPT ![c].unsubscribes =
                              @ \cup {CandListener(t.callId, k, FALSE),
                                      DocListener(t.callId, k, FALSE)}]
             /\ tasks' = Drop(t)
             /\ UNCHANGED <<calls, conns, written>>
  /\ UNCHANGED <<offerCandidates, answerCandidates, nextId, clicks, users, variant,
                 mediaFailed, timers, watchSeen, endedWrites, cleanupRuns, modal, device>>

\* updateDoc() settled: the callee subscribes to the caller's candidates and to
\* the call document.
answerCallP4_written(t) ==
  /\ t.kind = "answerCallP4" /\ t.at = "updateDoc"
  /\ session' = [session EXCEPT ![t.client].unsubscribes =
                   @ \cup {CandListener(t.callId, t.conn, FALSE),
                           DocListener(t.callId, t.conn, FALSE)}]
  /\ tasks' = Drop(t)
  /\ UNCHANGED <<calls, offerCandidates, answerCandidates, nextId, clicks, users, variant,
                 mediaFailed, conns, timers, watchSeen, written, endedWrites,
                 cleanupRuns, modal, device>>

\* The callee's listener of the call document: cleanup() on status ended.
onCallSnapshotP4(c, l) == variant = "part_004" /\ onCallSnapshotV1(c, l)

\* ------------------------------------------------------------------ specification
Start(present, presses, revision) ==
  /\ users = present
  /\ variant = revision
  /\ clicks = presses
  /\ calls = [id \in CallIds |-> NoDoc]
  /\ offerCandidates = [id \in CallIds |-> 0]
  /\ answerCandidates = [id \in CallIds |-> 0]
  /\ nextId = 0
  /\ session = [c \in Clients |-> IF revision = "V1" THEN IdleSessionV1 ELSE IdleSession]
  /\ conns = <<>>
  /\ tasks = EmptyBag
  /\ timers = [c \in Clients |-> 0]
  /\ watchSeen = [c \in Clients |-> {}]
  /\ written = [id \in CallIds |-> {}]
  /\ endedWrites = [c \in Clients |-> [id \in CallIds |-> 0]]
  /\ cleanupRuns = [c \in Clients |-> 0]
  /\ mediaFailed = FALSE
  /\ modal = NoModal
  /\ device = NoDevice

Init == Start({"a", "b"}, MaxClicks, "part_003")
InitShort == Start({"a", "b"}, ShortClicks, "part_003")
InitRoom == Start(Clients, RoomClicks, "part_003")
InitV2 == Start({"a", "b"}, MaxClicks, "V2")
InitV1 == Start({"a", "b"}, FirstClicks, "V1")

NextV2 ==
  \/ \E c \in Clients, target \in Clients : startCall(c, target)
  \/ \E t \in BagToSet(tasks) : startCall_gotMedia(t)
  \/ \E t \in BagToSet(tasks) : startCall_mediaFailed(t)
  \/ \E t \in BagToSet(tasks) : startCall_offerCreated(t)
  \/ \E t \in BagToSet(tasks) : startCall_docWritten(t)
  \/ \E c \in Clients : answerCall(c)
  \/ \E t \in BagToSet(tasks) : answerCall_gotMedia(t)
  \/ \E t \in BagToSet(tasks) : answerCall_mediaFailed(t)
  \/ \E t \in BagToSet(tasks) : answerCall_remoteSet(t)
  \/ \E t \in BagToSet(tasks) : answerCall_answerCreated(t)
  \/ \E t \in BagToSet(tasks) : answerCall_written(t)
  \/ \E c \in Clients : handleHangup(c)
  \/ \E t \in BagToSet(tasks) : handleHangup_written(t)
  \/ \E c \in Clients : handleReject(c)
  \/ \E t \in BagToSet(tasks) : handleReject_written(t)
  \/ \E c \in Clients : \E l \in session[c].unsubscribeRefs : onCallSnapshot(c, l)
  \/ \E c \in Clients : \E l \in session[c].unsubscribeRefs : onCandidateSnapshot(c, l)
  \/ \E k \in 1..Len(conns) : setRemoteDescription_done(k)
  \/ \E k \in 1..Len(conns) : onicecandidate(k)
  \/ \E c \in Clients, id \in CallIds : onIncomingAdded(c, id)
  \/ \E c \in Clients, id \in CallIds : onIncomingRemoved(c, id)

Next ==
  \/ NextV2
  \/ \E c \in Clients : dismissError(c)
  \/ \E c \in Clients : cleanupTimer(c)

NextV1 ==
  \/ \E c \in Clients : effectV1(c)
  \/ \E c \in Clients, id \in CallIds : onIncomingAddedV1(c, id)
  \/ \E c \in Clients, id \in CallIds : onIncomingRemovedV1(c, id)
  \/ \E c \in Clients, target \in Clients : initiateCall(c, target)
  \/ \E t \in BagToSet(tasks) : initiateCall_gotMedia(t)
  \/ \E t \in BagToSet(tasks) : initiateCall_mediaFailed(t)
  \/ \E t \in BagToSet(tasks) : initiateCall_docAdded(t)
  \/ \E t \in BagToSet(tasks) : initiateCall_offerCreated(t)
  \/ \E t \in BagToSet(tasks) : initiateCall_offerWritten(t)
  \/ \E c \in Clients : answerCallV1(c)
  \/ \E t \in BagToSet(tasks) : answerCallV1_gotMedia(t)
  \/ \E t \in BagToSet(tasks) : answerCallV1_mediaFailed(t)
  \/ \E t \in BagToSet(tasks) : answerCallV1_remoteSet(t)
  \/ \E t \in BagToSet(tasks) : answerCallV1_answerCreated(t)
  \/ \E t \in BagToSet(tasks) : answerCallV1_written(t)
  \/ \E c \in Clients : hangupCall(c)
  \/ \E t \in BagToSet(tasks) : hangupCall_written(t)
  \/ \E c \in Clients : rejectCall(c)
  \/ \E t \in BagToSet(tasks) : rejectCall_written(t)
  \/ \E c \in Clients : \E l \in session[c].unsubscribes : onCallSnapshotV1(c, l)
  \/ \E c \in Clients : \E l \in session[c].unsubscribes : onCandidateSnapshotV1(c, l)
  \/ \E k \in 1..Len(conns) : setRemoteDescription_doneV1(k)
  \/ \E k \in 1..Len(conns) : onicecandidate(k)

\* Nobody has mounted the component yet.
InitV3 ==
  /\ users = {}
  /\ variant = "V3"
  /\ clicks = V3Clicks
  /\ calls = [id \in CallIds |-> NoDocV3]
  /\ offerCandidates = [id \in CallIds |-> 0]
  /\ answerCandidates = [id \in CallIds |-> 0]
  /\ nextId = 0
  /\ session = [c \in Clients |-> IdleSessionV3]
  /\ conns = <<>>
  /\ tasks = EmptyBag
  /\ timers = [c \in Clients |-> 0]
  /\ watchSeen = [c \in Clients |-> {}]
  /\ written = [id \in CallIds |-> {}]
  /\ endedWrites = [c \in Clients |-> [id \in CallIds |-> 0]]
  /\ cleanupRuns = [c \in Clients |-> 0]
  /\ mediaFailed = FALSE
  /\ modal = NoModal
  /\ device = NoDevice

NextV3 ==
  \/ \E c \in Clients : mountV3(c)
  \/ \E c \in Clients : unmountV3(c)
  \/ timePasses
  \/ \E c \in Clients, target \in Clients : makeCall(c, target)
  \/ \E t \in BagToSet(tasks) : makeCall_gotMedia(t)
  \/ \E t \in BagToSet(tasks) : makeCall_mediaFailed(t)
  \/ \E t \in BagToSet(tasks) : makeCall_docAdded(t)
  \/ \E t \in BagToSet(tasks) : makeCall_offerCreated(t)
  \/ \E t \in BagToSet(tasks) : makeCall_offerWritten(t)
  \/ \E c \in Clients : handleAnswerCall(c)
  \/ \E t \in BagToSet(tasks) : handleAnswerCall_gotMedia(t)
  \/ \E t \in BagToSet(tasks) : handleAnswerCall_mediaFailed(t)
  \/ \E t \in BagToSet(tasks) : handleAnswerCall_gotDoc(t)
  \/ \E t \in BagToSet(tasks) : handleAnswerCall_remoteSet(t)
  \/ \E t \in BagToSet(tasks) : handleAnswerCall_answerCreated(t)
  \/ \E t \in BagToSet(tasks) : handleAnswerCall_written(t)
  \/ \E c \in Clients : handleDecline(c)
  \/ \E t \in BagToSet(tasks) : handleDecline_deleted(t)
  \/ \E c \in Clients : handleHangupV3(c)
  \/ \E c \in Clients : \E l \in session[c].subscriptions : onCallSnapshotV3(c, l)
  \/ \E c \in Clients : \E l \in session[c].subscriptions : onCandidateSnapshotV3(c, l)
  \/ \E k \in 1..Len(conns) : setRemoteDescription_doneV3(k)
  \/ \E k \in 1..Len(conns) : connectionConnected(k)
  \/ \E k \in 1..Len(conns) : connectionFailed(k)
  \/ \E k \in 1..Len(conns) : onicecandidate(k)
  \/ \E c \in Clients, id \in CallIds : onIncomingAddedV3(c, id)
  \/ \E c \in Clients, id \in CallIds : onIncomingRemovedV3(c, id)

\* The actions of the room's life around the call component.
NextChat ==
  \/ Next
  \/ \E c \in Clients : unmount(c)
  \/ \E c \in Clients : handleDeleteChat(c)

\* A room of two users.
Spec == Init /\ [][Next]_vars
\* The same room, fewer button presses.
SpecShort == InitShort /\ [][Next]_vars
\* A room of three users.
SpecRoom == InitRoom /\ [][Next]_vars
\* A room of two users whose members may leave it or delete the chat.
SpecChat == Init /\ [][NextChat]_vars
\* A room of two users running the earlier revision.
SpecV2 == InitV2 /\ [][NextV2]_vars
\* A room of two users running the first revision.
SpecV1 == InitV1 /\ [][NextV1]_vars
\* A room of two users running the latest revision.
SpecV3 == InitV3 /\ [][NextV3]_vars

\* A CallModal on its own, as host or as joiner.
InitModal ==
  /\ users = {}
  /\ variant = "CallModal"
  /\ clicks = 0
  /\ calls = [id \in CallIds |-> NoDoc]
  /\ offerCandidates = [id \in CallIds |-> 0]
  /\ answerCandidates = [id \in CallIds |-> 0]
  /\ nextId = 0
  /\ session = [c \in Clients |-> IdleSession]
  /\ conns = <<>>
  /\ tasks = EmptyBag
  /\ timers = [c \in Clients |-> 0]
  /\ watchSeen = [c \in Clients |-> {}]
  /\ written = [id \in CallIds |-> {}]
  /\ endedWrites = [c \in Clients |-> [id \in CallIds |-> 0]]
  /\ cleanupRuns = [c \in Clients |-> 0]
  /\ mediaFailed = FALSE
  /\ \E isHost \in BOOLEAN : modal = NewModal(isHost)
  /\ device = NoDevice

NextModal ==
  \/ modalSubscribe
  \/ peerDescription
  \/ peerCandidate
  \/ onModalDocSnapshot
  \/ modalRemoteDescription_done
  \/ onModalCandidateSnapshot
  \/ \E a \in modal.adding : modalAddIceCandidate_done(a)
  \/ modalAnswer
  \/ modalCleanup

SpecModal == InitModal /\ [][NextModal]_vars

\* One client's page and media, on every kind of page.
InitDevice ==
  /\ users = {"a", "b"}
  /\ variant = "part_003"
  /\ clicks = DeviceClicks
  /\ calls = [id \in CallIds |-> NoDoc]
  /\ offerCandidates = [id \in CallIds |-> 0]
  /\ answerCandidates = [id \in CallIds |-> 0]
  /\ nextId = 0
  /\ session = [c \in Clients |-> IdleSession]
  /\ conns = <<>>
  /\ tasks = EmptyBag
  /\ timers = [c \in Clients |-> 0]
  /\ watchSeen = [c \in Clients |-> {}]
  /\ written = [id \in CallIds |-> {}]
  /\ endedWrites = [c \in Clients |-> [id \in CallIds |-> 0]]
  /\ cleanupRuns = [c \in Clients |-> 0]
  /\ mediaFailed = FALSE
  /\ modal = NoModal
  /\ \E protocol \in Protocols, hostname \in Hostnames, isMobile \in BOOLEAN :
       device = NewDevice(protocol, hostname, isMobile)

NextDevice ==
  \/ \E type \in {"audio", "video"} : deviceStartCall(type)
  \/ deviceSwitchCamera
  \/ deviceToggleMute
  \/ \E ok \in BOOLEAN : deviceMediaSettled(ok)
  \/ devicePeerAnswers
  \/ \E isCaller \in BOOLEAN : deviceCandidate(isCaller)

SpecDevice == InitDevice /\ [][NextDevice]_vars

\* The callee's side of part_004, with the caller's writes.
InitP4 ==
  /\ users = {"a", "b"}
  /\ variant = "part_004"
  /\ clicks = AnswerClicks
  /\ calls = [id \in CallIds |-> NoDoc]
  /\ offerCandidates = [id \in CallIds |-> 0]
  /\ answerCandidates = [id \in CallIds |-> 0]
  /\ nextId = 0
  /\ session = [c \in Clients |-> IdleSessionV1]
  /\ conns = <<>>
  /\ tasks = EmptyBag
  /\ timers = [c \in Clients |-> 0]
  /\ watchSeen = [c \in Clients |-> {}]
  /\ written = [id \in CallIds |-> {}]
  /\ endedWrites = [c \in Clients |-> [id \in CallIds |-> 0]]
  /\ cleanupRuns = [c \in Clients |-> 0]
  /\ mediaFailed = FALSE
  /\ modal = NoModal
  /\ device = NoDevice

NextP4 ==
  \/ initiateCallP4_docAdded
  \/ initiateCallP4_offerWritten
  \/ \E c \in Clients : effectP4(c)
  \/ \E c \in Clients, id \in CallIds : onIncomingAddedP4(c, id)
  \/ \E c \in Clients, id \in CallIds : onIncomingRemovedP4(c, id)
  \/ \E c \in Clients : answerCallP4(c)
  \/ \E t \in BagToSet(tasks) : answerCallP4_gotMedia(t)
  \/ \E t \in BagToSet(tasks) : answerCallP4_mediaFailed(t)
  \/ \E t \in BagToSet(tasks) : answerCallP4_gotDoc(t)
  \/ \E t \in BagToSet(tasks) : answerCallP4_remoteSet(t)
  \/ \E t \in BagToSet(tasks) : answerCallP4_answerCreated(t)
  \/ \E t \in BagToSet(tasks) : answerCallP4_written(t)
  \/ \E c \in Clients : \E l \in session[c].unsubscribes : onCallSnapshotP4(c, l)

SpecP4 == InitP4 /\ [][NextP4]_vars

\* ------------------------------------------------------------------ properties
\* C1: the status of a call record only ever changes offering -> answered,
\* answered -> ended or offering -> declined; no other change of status (such as
\* offering -> ended, ended -> answered, declined -> answered) is ever written.
C1_OnlyThreeStatusChanges ==
  [][\A id \in CallIds :
       (calls[id].exists /\ calls'[id].status # calls[id].status)
         => <<calls[id].status, calls'[id].status>> \in
              {<<"offering", "answered">>, <<"answered", "ended">>,
               <<"offering", "declined">>}]_vars

\* C2: of the two callee verdicts, answered and declined, at most one is ever
\* written to a call record.
C2_AnsweredXorDeclined ==
  \A id \in CallIds : ~({"answered", "declined"} \subseteq written[id])

\* C3: addIceCandidate is only ever called on a peer connection that already has
\* a remote description, in whatever order candidates and descriptions arrive.
C3_CandidateAfterRemoteDescription ==
  \A k \in 1..Len(conns) : ~conns[k].iceNoRemote

\* C4: the remote description is applied at most once per peer connection: of
\* several snapshots that carry the answer, also ones delivered before an earlier
\* setRemoteDescription has completed, only the first leads to a call of it.
C4_RemoteDescriptionOnce ==
  \A k \in 1..Len(conns) : conns[k].srd <= 1

\* Nothing is in flight in a room of the first revision: no handler is
\* suspended, every effect has run, every snapshot has been delivered and every
\* setRemoteDescription has completed.
QuietV1 ==
  /\ tasks = EmptyBag
  /\ \A c \in Clients :
       /\ session[c].bound.callStatus = session[c].callStatus
       /\ \A l \in session[c].unsubscribes : ~l.dirty
       /\ watchSeen[c] = {id \in CallIds : Matches(id, c)}
  /\ \A k \in 1..Len(conns) : conns[k].closed \/ conns[k].remote # "pending"

\* C5: when the caller has started a call, the callee has accepted it, every
\* operation has succeeded and nobody has hung up or declined, both parties end
\* up connected and stay so: once nothing is in flight any more each of them is
\* connected in that call and holds an open peer connection, its local media
\* and its subscriptions.
C5_BothStayConnected ==
  \A id \in CallIds :
    ( /\ QuietV1
      /\ calls[id].status = "answered"
      /\ ~mediaFailed
      /\ \A c \in Clients, i \in CallIds : endedWrites[c][i] = 0
      /\ \A i \in CallIds : written[i] \cap {"declined", "refused"} = {} )
    => \A o \in {calls[id].callerId, calls[id].calleeId} :
         /\ session[o].callStatus = "connected"
         /\ session[o].activeCall = id
         /\ session[o].peerConnection # NoConn
         /\ session[o].localStreamRef
         /\ session[o].unsubscribes # {}

\* Nothing is in flight: no handler is suspended, no timer is pending, every
\* snapshot has been delivered and every setRemoteDescription has completed.
\* From here on only the users' buttons and ICE candidates can make a step.
Quiet ==
  /\ tasks = EmptyBag
  /\ \A c \in Clients :
       /\ timers[c] = 0
       /\ \A l \in session[c].unsubscribeRefs : ~l.dirty
       /\ (c \in users /\ session[c].viewState.status = "idle")
            => watchSeen[c] = {id \in CallIds : Matches(id, c)}
  /\ \A k \in 1..Len(conns) : conns[k].closed \/ conns[k].remote # "pending"

\* C6: once a party has hung up a call whose offer was written (also while the
\* callee's accept is in progress), the other party's client eventually tears
\* the call down: when nothing is in flight any more it is no longer in a
\* session of that call.
C6_HangupReachesPeer ==
  \A c \in Clients, id \in CallIds :
    (Quiet /\ endedWrites[c][id] > 0)
      => \A o \in {calls[id].callerId, calls[id].calleeId} \ {c} :
           session[o].viewState.callId # id

\* C7: after cleanup() has run, and after it has run a second time in a row, the
\* client is in the state it was constructed with: status idle, no peer
\* connection, no local or remote media, no subscriptions, no incoming call.
C7_CleanupIdempotent ==
  \A c \in Clients : cleanupRuns[c] >= 1 => session[c] = IdleSession

C7_CleanupRanTwice ==
  \E c \in Clients : cleanupRuns[c] = 2 /\ session[c] = IdleSession

\* C8: a client writes status=ended at most once to a call record, however its
\* repeated hangups interleave with the remote party's ended or declined.
C8_EndedWrittenOnce ==
  \A c \in Clients, id \in CallIds : endedWrites[c][id] <= 1

\* C9: while an incoming call is held (ringing), a second offer for the same
\* callee never replaces the held incoming-call data.
C9_HeldIncomingCallKept ==
  [][\A c \in Clients :
       (session[c].incomingData # NoCall /\ session'[c].incomingData # NoCall)
         => session'[c].incomingData = session[c].incomingData]_vars

\* C10: while a client has a call in progress (an outgoing call being set up or
\* ringing, an accepted call connecting or connected), an inbound offer never
\* sets its incoming-call state.
C10_NoIncomingWhileBusy ==
  [][\A c \in Clients :
       LET busy == \/ session[c].viewState.status # "idle"
                   \/ \E t \in BagToSet(tasks) :
                        t.client = c /\ t.kind \in {"startCall", "answerCall"}
       IN (busy /\ session'[c].incomingData # session[c].incomingData)
            => session'[c].incomingData = NoCall]_vars

\* C11: a client never holds two call sessions at once: at any time at most one
\* of the peer connections it has created is live (not closed), also when a
\* start-call or accept is issued while an earlier one still awaits media.
C11_OneLiveConnection ==
  \A c \in Clients :
    Cardinality({k \in 1..Len(conns) : conns[k].owner = c /\ ~conns[k].closed}) <= 1

\* C12: when the callee has declined a call, the callee's local media is never
\* acquired for that call: no answerCall of that call has a getUserMedia request
\* outstanding or goes on with the stream it obtained, and no peer connection
\* carrying the callee's tracks exists for it.
C12_DeclineNeverAcquiresMedia ==
  \A id \in CallIds :
    "declined" \in written[id]
      => /\ \A t \in BagToSet(tasks) : ~(t.kind = "answerCall" /\ t.callId = id)
         /\ \A k \in 1..Len(conns) : ~(conns[k].callId = id /\ ~conns[k].isCaller)

\* C13: in every state of the signaling store, a call record whose status is
\* answered carries an answer body: status and answer are written by one
\* updateDoc, so no reader can observe answered with the answer missing.
C13_AnsweredCarriesAnswer ==
  \A id \in CallIds : calls[id].status = "answered" => calls[id].answer

C13_SomeCallAnswered ==
  \E id \in CallIds :
    /\ calls[id].exists /\ calls[id].status = "answered"
    /\ "answered" \in written[id]

\* C15: when the call record is deleted while a client's session for it is
\* outgoing, connecting or connected, that client tears down and returns to
\* idle: once nothing is in flight any more, no client still in the room shows
\* a call whose record no longer exists.
C15_DeletionTearsDown ==
  \A c \in users :
    (Quiet /\ session[c].viewState.status # "idle")
      => calls[session[c].viewState.callId].exists

\* C19: if local media acquisition fails when the caller starts a call, no call
\* record and no candidate is ever written for that attempt (every record and
\* every caller candidate belongs to an attempt that got its media and created
\* its peer connection), the error is surfaced and no stream is held when the
\* catch block has run, and the cleanup the catch block schedules leaves the
\* client idle, holding no media and no peer connection.
C19_FailedStartWritesNothing ==
  /\ [](\A id \in CallIds :
          (calls[id].exists \/ offerCandidates[id] > 0)
            => \E k \in 1..Len(conns) : conns[k].callId = id /\ conns[k].isCaller)
  /\ [][\A t \in BagToSet(tasks) :
          startCall_mediaFailed(t)
            => /\ ~calls'[t.callId].exists
               /\ offerCandidates'[t.callId] = 0
               /\ session'[t.client].errorMsg
               /\ ~session'[t.client].localStream
               /\ timers'[t.client] > 0]_vars
  /\ [][\A c \in Clients :
          cleanupTimer(c)
            => /\ session'[c].viewState = IdleViewState
               /\ ~session'[c].errorMsg
               /\ ~session'[c].localStream
               /\ session'[c].pc = NoConn]_vars

C19_StartFailedOnMedia ==
  /\ mediaFailed
  /\ nextId > 0
  /\ \A id \in CallIds : ~calls[id].exists
  /\ \E c \in Clients : session[c].errorMsg /\ timers[c] > 0

\* C20: if local media acquisition fails after the callee has accepted a call,
\* the callee writes status=declined on the call record (so that the caller
\* leaves the ringing state): the step in which answerCall's getMediaStream
\* rejects leaves the record declined.
C20_FailedAcceptDeclines ==
  [][\A t \in BagToSet(tasks) :
       (answerCall_mediaFailed(t) /\ calls[t.callId].exists)
         => /\ calls'[t.callId].status = "declined"
            /\ "declined" \in written'[t.callId]]_vars

\* C14: an offer record whose age (now minus createdAt) is at least the
\* 60-second threshold when the incoming-call watcher sees it never sets the
\* incoming-call (ring) state, also on the first snapshot after the watcher
\* subscribes: whenever incomingCall becomes a call, that call's record is
\* younger than the threshold.
C14_StaleOfferNeverRings ==
  [][\A c \in Clients, id \in CallIds :
       (session'[c].incomingCall = id /\ session[c].incomingCall # id)
         => calls[id].age < StaleAfter]_vars

C14_StaleOfferSeen ==
  \E c \in users, id \in CallIds :
    /\ watchSeen[c] = {id} /\ Matches(id, c)
    /\ calls[id].age >= StaleAfter
    /\ session[c].incomingCall = NoCall /\ session[c].activeCall = NoCall
    /\ \A k \in 1..Len(conns) : conns[k].owner # c
    /\ \A t \in BagToSet(tasks) : t.client # c

\* C16: after teardown by any trigger (user hangup, remote deletion of the call
\* record, connection failure, media error), every local media track that was
\* acquired for the call has been stopped: a step in which a mounted client
\* drops its peer connection leaves that client without a live track.
C16_TeardownStopsTracks ==
  [][\A c \in users \cap users' :
       (session[c].peerConnection # NoConn /\ session'[c].peerConnection = NoConn)
         => session'[c].liveTracks = {}]_vars

\* C17: after teardown, no signaling subscription created for the call
\* (call-record watch or candidate watch) is still active, so that no later
\* change of the call's records triggers a callback on this client: a step in
\* which a mounted client drops its peer connection leaves it no subscription.
C17_TeardownCancelsSubscriptions ==
  [][\A c \in users \cap users' :
       (session[c].peerConnection # NoConn /\ session'[c].peerConnection = NoConn)
         => session'[c].subscriptions = {}]_vars

\* C18: when the call component is unmounted during a call (the user leaves the
\* room or the page is torn down), the peer connection is closed, every local
\* track is stopped and every signaling subscription of the call is cancelled.
C18_UnmountReleasesCall ==
  [][\A c \in users \ users' :
       session[c].peerConnection # NoConn
         => /\ \A k \in 1..Len(conns) : conns[k].owner = c => conns'[k].closed
            /\ session'[c].liveTracks = {}
            /\ session'[c].subscriptions = {}]_vars

\* C21: when the user hangs up or declines and the signaling write (status=ended
\* or status=declined) fails, local teardown still completes: when the handler
\* has run to its end the incoming call (decline) or the active call (hang up)
\* is cleared and the client is idle.
C21_TeardownDespiteFailedWrite ==
  [][\A t \in BagToSet(tasks) :
       /\ (rejectCall_written(t) /\ ~t.ok)
            => session'[t.client].incomingCall = NoIncoming
       /\ (hangupCall_written(t) /\ ~t.ok)
            => /\ session'[t.client].activeCall = NoCall
               /\ session'[t.client].callStatus = "idle"
               /\ session'[t.client].peerConnection = NoConn]_vars

\* C22: if the caller cannot create or write its offer, the call fails locally:
\* when the handler ends on the rejected createOffer()/setLocalDescription() or
\* on the rejected updateDoc({offer}), the caller is not left in the calling
\* state, and it holds neither its local media nor its peer connection.
C22_FailedOfferFailsLocally ==
  [][\A t \in BagToSet(tasks) :
       (\/ initiateCall_offerWritten(t) /\ ~t.ok
        \/ initiateCall_offerCreated(t) /\ conns[t.conn].closed)
         => /\ session'[t.client].callStatus # "calling"
            /\ ~session'[t.client].localStreamRef
            /\ session'[t.client].peerConnection = NoConn]_vars

\* C23: if the caller ends a call while the callee is still ringing for it, the
\* callee's ring for that call is eventually cancelled: once the caller's
\* status=ended is in the record and nothing is in flight any more (the
\* watcher has reported that the record left the offering query), the callee's
\* incoming-call state does not hold that call any longer.
C23_EndedRingCancelled ==
  \A c \in Clients, id \in CallIds :
    ( /\ QuietV1
      /\ calls[id].exists
      /\ calls[id].calleeId = c
      /\ calls[id].status = "ended"
      /\ endedWrites[calls[id].callerId][id] > 0 )
    => \/ session[c].incomingCall = NoIncoming
       \/ session[c].incomingCall.id # id

\* Client c has been a party of a call that is over and is back in idle.
BackInIdle(c) ==
  /\ c \in users
  /\ session[c].viewState.status = "idle"
  /\ \E j \in CallIds :
       /\ calls[j].exists
       /\ c \in {calls[j].callerId, calls[j].calleeId}
       /\ calls[j].status \in {"ended", "declined"}

\* C24: after a call has ended and the client is back in idle, the incoming-call
\* watcher is subscribed again.  Whenever a client returns to idle its watcher
\* starts as a new subscription (nothing reported yet); an idle client that has
\* been through a call is always able to receive an offer addressed to it that
\* the subscription has not reported; and when it receives it, it rings (the
\* offer becomes its incoming call).
C24_WatcherSubscribedAgain ==
  /\ [](\A c \in Clients, id \in CallIds :
          (BackInIdle(c) /\ Matches(id, c) /\ id \notin watchSeen[c])
            => ENABLED onIncomingAdded(c, id))
  /\ [][\A c \in Clients :
          ( /\ c \in users
            /\ session[c].viewState.status # "idle"
            /\ session'[c].viewState.status = "idle" )
            => watchSeen'[c] = {}]_vars
  /\ [][\A c \in Clients, id \in CallIds :
          (BackInIdle(c) /\ onIncomingAdded(c, id))
            => session'[c].incomingData = id]_vars

\* A client that was a party of a call that is over rings for an offer written
\* after that call.
C24_RingsAfterCall ==
  \E c \in Clients, id \in CallIds :
    /\ BackInIdle(c)
    /\ Matches(id, c)
    /\ session[c].incomingData = id
    /\ \E j \in CallIds :
         /\ j < id
         /\ calls[j].exists
         /\ c \in {calls[j].callerId, calls[j].calleeId}
         /\ calls[j].status \in {"ended", "declined"}

C26_QueuedThenAppliedOnce ==
  /\ modal.mounted
  /\ \A c \in ModalCands : modal.applied[c] <= 1
  /\ \A c \in modal.early :
       /\ ~modal.remoteDescription
            => /\ Len(SelectSeq(modal.candidateQueue, LAMBDA q : q = c)) = 1
               /\ modal.applied[c] = 0
               /\ \A a \in modal.adding : a.cand # c
       /\ (modal.remoteDescription /\ ~modal.closed /\ modal.adding = {})
            => /\ modal.applied[c] = 1
               /\ Len(SelectSeq(modal.candidateQueue, LAMBDA q : q = c)) = 0
               /\ c \notin modal.dropped

\* Two candidates arrived before the remote description and have been applied
\* after it was set.
C26_EarlyCandidatesApplied ==
  /\ modal.mounted /\ ~modal.closed /\ modal.remoteDescription
  /\ modal.early = ModalCands
  /\ \A c \in ModalCands : modal.applied[c] = 1

\* C27: switchCamera during an active video call performs no signaling write
\* (the call record and both candidate collections are unchanged by each of its
\* steps), and the audio track on the peer connection's sender is the same
\* track before and after.
C27_SwitchCameraFrame ==
  [][( /\ device.open /\ device.type = "video" /\ device.pc
       /\ \/ deviceSwitchCamera
          \/ /\ device.invocation.for = "switchCamera"
             /\ \E ok \in BOOLEAN : deviceMediaSettled(ok) )
       => /\ calls' = calls
          /\ offerCandidates' = offerCandidates
          /\ answerCandidates' = answerCandidates
          /\ device'.senders.audio = device.senders.audio]_vars

\* The camera has been switched in an accepted video call: the sender carries a
\* video track of a later stream than its audio track.
C27_CameraSwitched ==
  /\ device.open /\ device.type = "video"
  /\ calls[DeviceCall].status = "answered"
  /\ device.facingMode = "environment"
  /\ device.senders.video > device.senders.audio + 1

\* C28: when the page is neither served over HTTPS nor on localhost/127.0.0.1,
\* media acquisition fails with an error before any getUserMedia request is
\* made: on such a page no request is ever made and no stream ever obtained, and
\* every call of getMediaStream ends in an error at once.
C28_InsecurePageFailsFirst ==
  /\ [](( /\ device.open
          /\ device.protocol # "https:"
          /\ device.hostname \notin {"localhost", "127.0.0.1"} )
          => /\ device.requests = <<>>
             /\ device.tracks = 0
             /\ device.localStream = NoLocalStream)
  /\ [][( /\ device.open
          /\ device.protocol # "https:"
          /\ device.hostname \notin {"localhost", "127.0.0.1"}
          /\ \E type \in {"audio", "video"} : deviceStartCall(type) )
          => /\ device'.result = "error"
             /\ device'.requests = <<>>
             /\ device'.invocation.for = "none"]_vars

\* A call was attempted on a plain-http page of another host and failed.
C28_InsecureAttemptFailed ==
  /\ device.open
  /\ device.protocol = "http:" /\ device.hostname = "chat.example.org"
  /\ clicks < DeviceClicks
  /\ device.result = "error"

\* C29: media acquisition first requests the ideal constraint set; if that
\* request fails it retries exactly once with the minimal set (audio true,
\* video true only for a video call); it returns the first stream obtained and
\* surfaces an error only when both requests fail.
C29_IdealThenOneFallback ==
  device.open =>
    LET r == device.requests
        inv == device.invocation
    IN /\ Len(r) <= 2
       /\ Len(r) >= 1
            => r[1].constraints = IdealConstraints(inv.type, device.isMobile, inv.mode)
       /\ Len(r) = 2
            => /\ r[1].outcome = "error"
               /\ r[2].constraints.audio = "true"
               /\ r[2].constraints.video = "true" <=> inv.type = "video"
       /\ device.result = "stream"
            => /\ Len(r) >= 1
               /\ r[Len(r)].outcome = "stream"
               /\ \A i \in 1..(Len(r) - 1) : r[i].outcome = "error"
       /\ (device.result = "error" /\ r # <<>>)
            => /\ Len(r) = 2
               /\ r[1].outcome = "error" /\ r[2].outcome = "error"
       /\ device.result = "none"
            => (Len(r) >= 1 /\ r[Len(r)].outcome = "pending") \/ inv.for = "none"
       /\ \A i \in 1..Len(r) :
            r[i].outcome = "pending" => (i = Len(r) /\ inv.for # "none")

\* The ideal request of an audio call failed and the fallback gave the stream.
C29_FallbackGaveStream ==
  /\ device.open
  /\ device.invocation.type = "audio"
  /\ Len(device.requests) = 2
  /\ device.result = "stream"

\* Both requests of a call failed and the error reached the caller.
C29_BothRequestsFailed ==
  /\ device.open
  /\ Len(device.requests) = 2
  /\ device.result = "error"

\* The peer connection k among the connections cs can have reported the
\* connection state connected: it is open and holds both descriptions, and so
\* does the connection at the other end of its call.
CanHaveConnected(cs, k) ==
  /\ k \in 1..Len(cs)
  /\ ~cs[k].closed /\ cs[k].local /\ cs[k].remote = "set"
  /\ \E j \in 1..Len(cs) :
       /\ cs[j].callId = cs[k].callId /\ cs[j].owner # cs[k].owner
       /\ cs[j].local /\ cs[j].remote = "set"

\* C30: a client's session status is connected only if its peer connection has
\* reported the connection state connected; receiving the answer (caller) or
\* writing the answer (callee) alone never makes the status connected.  Whenever
\* a client's status becomes connected, its peer connection is one that can
\* have reported connected.
C30_ConnectedOnlyWhenReported ==
  [][\A c \in Clients :
       ( /\ session[c].viewState.status # "connected"
         /\ session'[c].viewState.status = "connected" )
         => CanHaveConnected(conns', session'[c].pc)]_vars

\* C31: the callee calls createAnswer on a peer connection only after
\* setRemoteDescription with the caller's offer has succeeded on that
\* connection; when the offer is missing or applying it fails, no answer is
\* created or written.
C31_AnswerOnlyAfterOffer ==
  [][\A t \in BagToSet(tasks) :
       answerCallP4_answerCreated(t)
         => /\ conns[t.conn].remote = "set"
            /\ calls[t.callId].offer]_vars

\* C32: an incoming call record whose offer field is still missing when the
\* incoming-call watcher sees it is ignored: the incoming-call (ring) state
\* never holds a record without an offer, and no accept ever runs with a
\* missing offer.
C32_NoRingWithoutOffer ==
  /\ \A c \in Clients :
       session[c].incomingCall # NoIncoming => session[c].incomingCall.offer
  /\ \A t \in BagToSet(tasks) : t.kind = "answerCall" => t.ok

\* C33: remote candidates are applied to the peer connection in the order in
\* which they arrived, including when new candidates arrive while the flush of
\* the queue is still in progress; when the flush ends the queue is empty.  On
\* an open connection addIceCandidate is called for the candidates in the order
\* of their arrival, and with the remote description set and no flush running
\* nothing is left in the queue.
C33_AppliedInArrivalOrder ==
  (modal.mounted /\ ~modal.closed)
    => /\ \A i, j \in 1..Len(modal.called) :
            i < j => modal.called[i] < modal.called[j]
       /\ (modal.remoteDescription /\ ~modal.flushing) => modal.candidateQueue = <<>>

\* C34: whenever createOffer or createAnswer is called on a peer connection,
\* every track of the local stream acquired for that call has already been
\* added to that peer connection: a connection on which one of the two calls
\* is in flight, or which holds the local description that came out of it,
\* carries the tracks.
C34_TracksBeforeOfferAndAnswer ==
  /\ \A t \in BagToSet(tasks) :
       t.at \in {"createOffer", "createAnswer"} => conns[t.conn].tracks
  /\ \A k \in 1..Len(conns) : conns[k].local => conns[k].tracks

\* An offer and the answer to it have been created.
C34_OfferAndAnswerCreated ==
  \E j, k \in 1..Len(conns) :
    /\ conns[j].isCaller /\ conns[j].local
    /\ ~conns[k].isCaller /\ conns[k].local
    /\ conns[j].callId = conns[k].callId

\* C35: during a camera switch the old video track is stopped only after the
\* new video track has been installed on the video sender, and it is still
\* live when acquiring the new track fails: the video track the connection is
\* sending is never a stopped one, and neither is the video track of the
\* local stream.
C35_OldTrackLiveUntilReplaced ==
  (device.open /\ device.pc)
    => /\ device.senders.video # NoTrack => device.senders.video \notin device.stopped
       /\ device.localStream.video # NoTrack
            => device.localStream.video \notin device.stopped

\* C36: after a caller's hang up has completed for a call it was still setting
\* up, that client performs no further signaling write for that call: no step
\* creates the call record, adds a candidate of the caller or writes a status
\* of the caller's for it.
C36_NoWriteAfterHangup ==
  [][\A id \in CallIds :
       "hungup" \in written[id]
         => /\ ~calls[id].exists => ~calls'[id].exists
            /\ offerCandidates'[id] = offerCandidates[id]
            /\ calls[id].exists
                 => endedWrites'[calls[id].callerId][id]
                      = endedWrites[calls[id].callerId][id]]_vars

\* No startCall and no answerCall of client c is suspended at an await.
NoSetupRunning(c) ==
  \A t \in BagToSet(tasks) : t.client = c => t.kind \notin {"startCall", "answerCall"}

C38_MuteIndicatorMatchesSentAudio ==
  (device.open /\ device.pc /\ device.type = "video" /\ device.senders.audio # NoTrack)
    => (device.isMuted <=> device.senders.audio \in device.disabled)

====
